---------------------------- MODULE Spec2Model ----------------------------
(***************************************************************************)
(* D-Algorithm test generation engine (DAlgorithmATPG) of the parallel     *)
(* fault simulator, as a state machine.                                    *)
(*                                                                         *)
(* The engine of src/d_algorithm_atpg.py is modelled: the five-valued      *)
(* gate evaluators are operators, the Circuit Model (ports, cells, nets,   *)
(* fanouts) and the Signal State (values, d_frontier, j_frontier,          *)
(* decision_stack) are variables, and generate_test is a sequence of       *)
(* steps: validate, initialize, sensitize, then per main-loop iteration    *)
(* forward implication (one action per pass), frontier update, output      *)
(* check, justification or propagation.                                    *)
(***************************************************************************)
EXTENDS Integers, Sequences, FiniteSets, TLC

(***************************************************************************)
(* Bounds of the model and constants of the program.                       *)
(***************************************************************************)
\* largest number of inputs of the single-gate circuits
MaxFanin == 3
\* max_iterations of generate_test's main loop
MainMaxIterations == 200
\* max_iterations of _forward_implication
FwdMaxIterations == 100

(***************************************************************************)
(* class Value: the five logic values.                                     *)
(***************************************************************************)
ZERO == "0"
ONE == "1"
X == "X"
D == "D"
D_BAR == "D'"
Value == {ZERO, ONE, X, D, D_BAR}

Elems(s) == {s[i] : i \in DOMAIN s}

(***************************************************************************)
(* The Logic Evaluator: _complement, _eval_and, _eval_or, _eval_xor,       *)
(* _eval_gate.  inputs is the ordered list of input values.                *)
(***************************************************************************)
\* a complement that swaps ZERO and ONE only
_complement_KeepsFaultEffect(val) ==
    CASE val = ZERO -> ONE
      [] val = ONE -> ZERO
      [] OTHER -> val

_complement(val) ==
    CASE val = ZERO -> ONE
      [] val = ONE -> ZERO
      [] val = D -> D_BAR
      [] val = D_BAR -> D
      [] val = X -> X

\* an AND without the test len(non_x_inputs) == len(inputs)
_eval_and_OneIgnoresX(inputs) ==
    IF ZERO \in Elems(inputs) THEN ZERO
    ELSE LET non_x_inputs == SelectSeq(inputs, LAMBDA v : v # X) IN
         IF non_x_inputs = <<>> THEN X
         ELSE IF D_BAR \in Elems(non_x_inputs) THEN D_BAR
         ELSE IF D \in Elems(non_x_inputs) THEN D
         ELSE ONE

\* an AND that is X whenever an input is X and none is ZERO
_eval_and_UnknownWins(inputs) ==
    IF ZERO \in Elems(inputs) THEN ZERO
    ELSE IF X \in Elems(inputs) THEN X
    ELSE IF D_BAR \in Elems(inputs) THEN D_BAR
    ELSE IF D \in Elems(inputs) THEN D
    ELSE ONE

_eval_and(inputs) ==
    IF ZERO \in Elems(inputs) THEN ZERO
    ELSE LET non_x_inputs == SelectSeq(inputs, LAMBDA v : v # X) IN
         IF non_x_inputs = <<>> THEN X
         ELSE IF D_BAR \in Elems(non_x_inputs) THEN D_BAR
         ELSE IF \A i \in DOMAIN non_x_inputs : non_x_inputs[i] \in {ONE, D}
              THEN IF D \in Elems(non_x_inputs) THEN D
                   ELSE IF Len(non_x_inputs) = Len(inputs) THEN ONE
                   ELSE X
              ELSE X

\* an OR without the test len(non_x_inputs) == len(inputs)
_eval_or_ZeroIgnoresX(inputs) ==
    IF ONE \in Elems(inputs) THEN ONE
    ELSE LET non_x_inputs == SelectSeq(inputs, LAMBDA v : v # X) IN
         IF non_x_inputs = <<>> THEN X
         ELSE IF D \in Elems(non_x_inputs) THEN D
         ELSE IF D_BAR \in Elems(non_x_inputs) THEN D_BAR
         ELSE ZERO

_eval_or(inputs) ==
    IF ONE \in Elems(inputs) THEN ONE
    ELSE LET non_x_inputs == SelectSeq(inputs, LAMBDA v : v # X) IN
         IF non_x_inputs = <<>> THEN X
         ELSE IF D \in Elems(non_x_inputs) THEN D
         ELSE IF \A i \in DOMAIN non_x_inputs : non_x_inputs[i] \in {ZERO, D_BAR}
              THEN IF D_BAR \in Elems(non_x_inputs) THEN D_BAR
                   ELSE IF Len(non_x_inputs) = Len(inputs) THEN ZERO
                   ELSE X
              ELSE X

\* the XOR of the inputs that precede position n (all of them for n = 0)
XorOfPrefix(inputs, n, both) ==
    LET seen == IF n = 0 THEN DOMAIN inputs ELSE 1..(n - 1)
        parity == Cardinality({i \in seen : inputs[i] = ONE}) % 2
        has_d == \E i \in seen : inputs[i] = D
        has_d_bar == \E i \in seen : inputs[i] = D_BAR
    IN  IF has_d /\ ~has_d_bar THEN (IF parity = 0 THEN D ELSE D_BAR)
        ELSE IF has_d_bar /\ ~has_d THEN (IF parity = 0 THEN D_BAR ELSE D)
        ELSE IF has_d /\ has_d_bar THEN both
        ELSE IF parity = 1 THEN ONE ELSE ZERO

\* an XOR whose loop stops at the first X (break) instead of returning X
_eval_xor_BreakAtX(inputs) ==
    IF X \in Elems(inputs) /\ SelectSeq(inputs, LAMBDA v : v # X) = <<>> THEN X
    ELSE IF X \in Elems(inputs)
         THEN XorOfPrefix(inputs, CHOOSE i \in DOMAIN inputs :
                                     /\ inputs[i] = X
                                     /\ \A j \in 1..(i - 1) : inputs[j] # X, X)
         ELSE XorOfPrefix(inputs, 0, X)

\* an XOR that resolves D together with D_BAR to ONE instead of X
_eval_xor_ResolvesBoth(inputs) ==
    IF X \in Elems(inputs) THEN X ELSE XorOfPrefix(inputs, 0, ONE)

\* The loop over the inputs returns X at the first X it meets; without an X it
\* ends with the parity of the ONE inputs and the two flags has_d, has_d_bar.
_eval_xor(inputs) ==
    IF X \in Elems(inputs) /\ SelectSeq(inputs, LAMBDA v : v # X) = <<>> THEN X
    ELSE IF X \in Elems(inputs) THEN X
    ELSE LET parity == Cardinality({i \in DOMAIN inputs : inputs[i] = ONE}) % 2
             has_d == D \in Elems(inputs)
             has_d_bar == D_BAR \in Elems(inputs)
         IN  IF has_d /\ ~has_d_bar THEN (IF parity = 0 THEN D ELSE D_BAR)
             ELSE IF has_d_bar /\ ~has_d THEN (IF parity = 0 THEN D_BAR ELSE D)
             ELSE IF has_d /\ has_d_bar THEN X
             ELSE IF parity = 1 THEN ONE ELSE ZERO

\* a NOT / BUF that takes its first input whatever the number of inputs
\* (inputs[0] if inputs else X)
_eval_gate_FirstInput(gate_type, inputs) ==
    CASE gate_type = "and" -> _eval_and(inputs)
      [] gate_type = "or" -> _eval_or(inputs)
      [] gate_type = "xor" -> _eval_xor(inputs)
      [] gate_type = "nand" -> _complement(_eval_and(inputs))
      [] gate_type = "nor" -> _complement(_eval_or(inputs))
      [] gate_type = "xnor" -> _complement(_eval_xor(inputs))
      [] gate_type = "not" -> IF inputs = <<>> THEN X ELSE _complement(inputs[1])
      [] gate_type = "buf" -> IF inputs = <<>> THEN X ELSE inputs[1]
      [] OTHER -> X

_eval_gate(gate_type, inputs) ==
    CASE gate_type = "and" -> _eval_and(inputs)
      [] gate_type = "or" -> _eval_or(inputs)
      [] gate_type = "xor" -> _eval_xor(inputs)
      [] gate_type = "nand" -> _complement(_eval_and(inputs))
      [] gate_type = "nor" -> _complement(_eval_or(inputs))
      [] gate_type = "xnor" -> _complement(_eval_xor(inputs))
      [] gate_type = "not" -> IF Len(inputs) # 1 THEN X ELSE _complement(inputs[1])
      [] gate_type = "buf" -> IF Len(inputs) # 1 THEN X ELSE inputs[1]
      [] OTHER -> X

\* gate_properties[gate_type]['non_controlling']; "none" stands for None and for
\* a gate type that has no entry.
\* mutant of NonControlling: the controlling values
NonControlling_Controlling(gate_type) ==
    CASE gate_type \in {"and", "nand"} -> ZERO
      [] gate_type \in {"or", "nor"} -> ONE
      [] OTHER -> "none"

NonControlling(gate_type) ==
    CASE gate_type \in {"and", "nand"} -> ONE
      [] gate_type \in {"or", "nor"} -> ZERO
      [] OTHER -> "none"

(***************************************************************************)
(* Netlists.  A cell is a gate instance; cells is the list of the cells in *)
(* the iteration order of the netlist's cells dictionary.                  *)
(***************************************************************************)
Cell(name, type, inputs, output) ==
    [name |-> name, type |-> type, inputs |-> inputs, output |-> output]

Dir(inputNets, outputNets) ==
    [n \in inputNets \cup outputNets |->
        IF n \in outputNets THEN [direction |-> "Output"] ELSE [direction |-> "Input"]]

NoFanouts == [s \in {} |-> <<>>]

Netlist(ports_, cells_, nets_, fanouts_) ==
    [ports |-> ports_, cells |-> cells_, nets |-> nets_, fanouts |-> fanouts_]

TwoInputTypes == {"and", "or", "nand", "nor", "xor", "xnor"}
OneInputTypes == {"not", "buf"}
PINames == <<"a", "b", "c", "d", "e">>

\* one gate g1 of k inputs driving the primary output f
GateCircuit(t, k) ==
    LET ins == SubSeq(PINames, 1, k) IN
    Netlist(Dir(Elems(ins), {"f"}),
            <<Cell("g1", t, ins, "f")>>,
            ins \o <<"f">>,
            NoFanouts)

\* g1 feeds g2, g2 drives f; rev lists g2 before g1 in the cells
TwoLevel(t1, t2, rev) ==
    LET g1 == Cell("g1", t1, <<"a", "b">>, "w")
        g2 == Cell("g2", t2, <<"w", "c">>, "f")
    IN  Netlist(Dir({"a", "b", "c"}, {"f"}),
                IF rev THEN <<g2, g1>> ELSE <<g1, g2>>,
                <<"a", "b", "c", "w", "f">>,
                NoFanouts)

\* the input a fans out to a1 and a2, which reconverge at g2
Reconvergent(t1, t2) ==
    Netlist(Dir({"a"}, {"f"}),
            <<Cell("g1", t1, <<"a1">>, "n"), Cell("g2", t2, <<"a2", "n">>, "f")>>,
            <<"a", "a1", "a2", "n", "f">>,
            [s \in {"a"} |-> <<"a1", "a2">>])

\* the stem s feeds two xor gates that are joined by g3 at the output f
TwoFrontier(t3) ==
    Netlist(Dir({"s", "b", "c"}, {"f"}),
            <<Cell("g1", "xor", <<"s1", "b">>, "w1"),
              Cell("g2", "xor", <<"s2", "c">>, "w2"),
              Cell("g3", t3, <<"w1", "w2">>, "f")>>,
            <<"s", "s1", "s2", "b", "c", "w1", "w2", "f">>,
            [s \in {"s"} |-> <<"s1", "s2">>])

\* the stem s feeds two xor gates whose outputs lead nowhere; f is driven from d
Blocked ==
    Netlist(Dir({"s", "b", "c", "d"}, {"f"}),
            <<Cell("g1", "xor", <<"s1", "b">>, "w1"),
              Cell("g2", "xor", <<"s2", "c">>, "w2"),
              Cell("g3", "buf", <<"d">>, "f")>>,
            <<"s", "s1", "s2", "b", "c", "d", "w1", "w2", "f">>,
            [s \in {"s"} |-> <<"s1", "s2">>])

\* sample_netlist of main()
SampleNetlist ==
    Netlist(Dir({"a", "b", "c", "d"}, {"f"}),
            <<Cell("g1", "xor", <<"a", "b">>, "w1"),
              Cell("g2", "or", <<"w11", "c">>, "w2"),
              Cell("g3", "and", <<"d", "w12">>, "w3"),
              Cell("g5", "or", <<"w3", "w2">>, "f")>>,
            <<"a", "b", "c", "d", "f", "w1", "w11", "w12", "w2", "w3">>,
            [s \in {"w1"} |-> <<"w11", "w12">>])

\* a circuit with no primary input: w and v are driven by nothing
ZeroInput(t) ==
    Netlist(Dir({}, {"f"}),
            <<Cell("g1", t, <<"w">>, "f")>>,
            <<"w", "v", "f">>,
            NoFanouts)

Circuits ==
    {GateCircuit(t, k) : t \in TwoInputTypes, k \in 2..MaxFanin}
    \cup {GateCircuit(t, 1) : t \in OneInputTypes}
    \cup {TwoLevel(t1, t2, rev) : t1 \in TwoInputTypes, t2 \in TwoInputTypes,
                                  rev \in BOOLEAN}
    \cup {Reconvergent(t1, t2) : t1 \in OneInputTypes, t2 \in TwoInputTypes}
    \cup {TwoFrontier(t3) : t3 \in TwoInputTypes}
    \cup {Blocked, SampleNetlist}
    \cup {ZeroInput(t) : t \in OneInputTypes}

\* Reconvergent with g2 listed before g1 in the cells
ReconvergentRev(t1, t2) ==
    LET c == Reconvergent(t1, t2) IN [c EXCEPT !.cells = <<c.cells[2], c.cells[1]>>]

\* the output n of g1 is a fanout stem: its branches n1 and n2 feed the
\* buffers that drive the outputs f and h
InternalStem(t) ==
    Netlist(Dir({"a", "b"}, {"f", "h"}),
            <<Cell("g1", t, <<"a", "b">>, "n"),
              Cell("g2", "buf", <<"n1">>, "f"),
              Cell("g3", "buf", <<"n2">>, "h")>>,
            <<"a", "b", "n", "n1", "n2", "f", "h">>,
            [s \in {"n"} |-> <<"n1", "n2">>])

\* a chain of n buffers from the input n0 to the output n<n>, the last buffer
\* listed first in the cells
ChainNet(i) == "n" \o ToString(i)

Chain(n) ==
    Netlist(Dir({ChainNet(0)}, {ChainNet(n)}),
            [k \in 1..n |-> Cell("g" \o ToString(n + 1 - k), "buf",
                                  <<ChainNet(n - k)>>, ChainNet(n + 1 - k))],
            [k \in 1..(n + 1) |-> ChainNet(k - 1)],
            NoFanouts)

\* one gate more than _forward_implication makes passes
ChainDepth == FwdMaxIterations + 1

\* a chain of FwdMaxIterations buffers, listed against the signal flow, into a
\* gate of type t with the side inputs c and d; the gate is listed first
ChainInto(t) ==
    LET n == FwdMaxIterations IN
    Netlist(Dir({ChainNet(0), "c", "d"}, {"f"}),
            <<Cell("g" \o ToString(n + 1), t, <<ChainNet(n), "c", "d">>, "f")>>
                \o Chain(n).cells,
            Chain(n).nets \o <<"c", "d", "f">>,
            NoFanouts)

PropagationCircuits ==
    {GateCircuit(t, k) : t \in TwoInputTypes, k \in 2..MaxFanin}
    \cup {TwoFrontier(t3) : t3 \in TwoInputTypes}
    \cup {ChainInto(t) : t \in TwoInputTypes}

\* the side input b of the xor gate g1 also feeds the and gate g2; g3 carries
\* the output of g1 on to f
SharedSideInput ==
    Netlist(Dir({"a", "b", "c", "d"}, {"f", "h"}),
            <<Cell("g1", "xor", <<"a", "b">>, "w"),
              Cell("g2", "and", <<"b", "c">>, "h"),
              Cell("g3", "xor", <<"w", "d">>, "f")>>,
            <<"a", "b", "c", "d", "w", "h", "f">>,
            NoFanouts)

MoreCircuits ==
    Circuits
    \cup {SharedSideInput}
    \cup {ReconvergentRev(t1, t2) : t1 \in OneInputTypes, t2 \in TwoInputTypes}
    \cup {InternalStem(t) : t \in TwoInputTypes}


(***************************************************************************)
(* State.  ports, cells, nets, fanouts are the Circuit Model held by the   *)
(* engine; values, d_frontier, j_frontier, decision_stack are its Signal   *)
(* State; fault_net, fault_type, iteration and fi_iteration are the        *)
(* arguments and loop counters of the running generate_test and            *)
(* _forward_implication; result is what the last call returned.            *)
(* prev_call and no_path_seen are history variables: the call made before  *)
(* the current one, and whether the current call met a propagation step    *)
(* at which no D-frontier gate had an X-path.                              *)
(***************************************************************************)
VARIABLES ports, cells, nets, fanouts,
          values, d_frontier, j_frontier, decision_stack,
          pc, fault_net, fault_type, iteration, fi_iteration, result,
          prev_call, no_path_seen,
          module, ev_fn, ev_type, ev_in, ev_out, sched, other,
          sim, batch

circuit == <<ports, cells, nets, fanouts>>
signal == <<values, d_frontier, j_frontier, decision_stack>>
\* what no step of generate_test touches: the module dictionary the engine was
\* constructed from, the evaluator's own arguments and results when it is
\* used by itself, the second engine and the schedule of two tasks, a call of
\* the 4-state simulator's compute (sim), and the fault list and the counters
\* of a batch driver (batch)
evaluator == <<ev_fn, ev_type, ev_in, ev_out>>
drivers == <<sim, batch>>
outside == <<module, evaluator, sched, other, drivers>>
vars == <<ports, cells, nets, fanouts, values, d_frontier, j_frontier,
          decision_stack, pc, fault_net, fault_type, iteration, fi_iteration,
          result, prev_call, no_path_seen,
          module, ev_fn, ev_type, ev_in, ev_out, sched, other, sim, batch>>

NoResult == [status |-> "unset", vector |-> <<>>]
ReturnNone == [status |-> "None", vector |-> <<>>]
ReturnVector(test_vector) == [status |-> "vector", vector |-> test_vector]
\* prev_call.engine: "same" when the call before was made on this engine
\* object, "other" when the engine was constructed after it
NoCall == [fault_net |-> "", fault_type |-> "", result |-> NoResult, engine |-> ""]
FinishedCall(engine) ==
    [fault_net |-> fault_net, fault_type |-> fault_type, result |-> result,
     engine |-> engine]

PrimaryInputs == {n \in DOMAIN ports : ports[n].direction = "Input"}
PrimaryOutputs == {n \in DOMAIN ports : ports[n].direction = "Output"}

FaultNets == Elems(nets) \cup {"nonet"}
FaultTypes == {"SA0", "SA1", "SA2"}

(***************************************************************************)
(* The steps of the engine as operators on a Signal State vals.            *)
(***************************************************************************)
\* mutant of InitialValues: a net that has a value keeps it
InitialValues_KeepsOld ==
    [n \in Elems(nets) |-> IF n \in DOMAIN values THEN values[n] ELSE X]

\* _initialize_circuit: every net X
InitialValues == [n \in Elems(nets) |-> X]

\* mutant of SensitizeValue: D and D' swapped
SensitizeValue_Swapped(ft) == IF ft = "SA0" THEN D_BAR ELSE D

SensitizeValue(ft) == IF ft = "SA0" THEN D ELSE D_BAR

\* mutant of SensitizedValues: the fanout branches are not written
SensitizedValues_StemOnly(vals, fn, ft) == [vals EXCEPT ![fn] = SensitizeValue(ft)]

\* generate_test, step 2: the fault net and its fanout branches get D or D'
SensitizedValues(vals, fn, ft) ==
    LET branches == IF fn \in DOMAIN fanouts THEN Elems(fanouts[fn]) ELSE {} IN
    [n \in DOMAIN vals |->
        IF n = fn \/ n \in branches THEN SensitizeValue(ft) ELSE vals[n]]

_get_gates_driven_by_net(net) ==
    SelectSeq(cells, LAMBDA g : net \in Elems(g.inputs))

InputValues(g, vals) == [k \in DOMAIN g.inputs |-> vals[g.inputs[k]]]

\* mutant of ForwardGate: a conflicting output is overwritten and the pass
\* goes on
ForwardGate_Overwrites(g, st) ==
    LET new_output == _eval_gate(g.type, InputValues(g, st.values))
        current_output == st.values[g.output]
    IN  IF new_output # X /\ current_output # new_output
        THEN [st EXCEPT !.values[g.output] = new_output, !.changed = TRUE]
        ELSE st

\* The body of the gate loop of _forward_implication for the gate g; st is the
\* pass so far: the values as updated, the changed flag, and conflict when the
\* call has returned False (no gate is evaluated after that).
ForwardGate(g, st) ==
    IF st.conflict THEN st
    ELSE LET new_output == _eval_gate(g.type, InputValues(g, st.values))
             current_output == st.values[g.output]
         IN  IF current_output # X /\ new_output # X /\ current_output # new_output
             THEN [st EXCEPT !.conflict = TRUE]
             ELSE IF current_output = X /\ new_output # X
             THEN [st EXCEPT !.values[g.output] = new_output, !.changed = TRUE]
             ELSE st

\* the gate loop over the gates lo..hi of cs, in order (split in halves)
RECURSIVE ForwardRange(_, _, _, _)
ForwardRange(cs, lo, hi, st) ==
    IF lo > hi THEN st
    ELSE IF lo = hi THEN ForwardGate(cs[lo], st)
    ELSE LET mid == (lo + hi) \div 2
             first_half == ForwardRange(cs, lo, mid, st)
         IN  IF first_half.conflict THEN first_half
             ELSE ForwardRange(cs, mid + 1, hi, first_half)

\* One pass of _forward_implication over the gates cs (self.cells.items())
\* from index i on: the gates are evaluated in order on the values as updated
\* so far; a conflict ends the pass at once.
ForwardGatesIn(cs, i, vals, changed) ==
    ForwardRange(cs, i, Len(cs), [conflict |-> FALSE, values |-> vals, changed |-> changed])

ForwardGates(i, vals, changed) == ForwardGatesIn(cells, i, vals, changed)

ForwardPassResult(vals) == ForwardGates(1, vals, FALSE)

\* the while condition of _forward_implication
ForwardContinues(it) == it < FwdMaxIterations

\* _forward_implication as a whole on the gates cs, from pass it on: its
\* verdict and the Signal State it leaves
RECURSIVE _forward_implication(_, _, _)
_forward_implication(cs, vals, it) ==
    IF ~ForwardContinues(it) THEN [success |-> TRUE, values |-> vals]
    ELSE LET r == ForwardGatesIn(cs, 1, vals, FALSE) IN
         IF r.conflict THEN [success |-> FALSE, values |-> r.values]
         ELSE IF ~r.changed THEN [success |-> TRUE, values |-> r.values]
         ELSE _forward_implication(cs, r.values, it + 1)

\* mutant of MainLoopContinues: one iteration too many
MainLoopContinues_OffByOne(it) == it <= MainMaxIterations

\* the while condition of generate_test's main loop
MainLoopContinues(it) == it < MainMaxIterations

HasFaultEffect(g, vals) == \E k \in DOMAIN g.inputs : vals[g.inputs[k]] \in {D, D_BAR}

GateNames(gs) == [i \in DOMAIN gs |-> gs[i].name]

\* mutant of DFrontierOf: the gates that have entered the frontier are added to
\* the list that is there
DFrontierOf_Patched(vals) ==
    d_frontier \o GateNames(SelectSeq(cells, LAMBDA g :
        vals[g.output] = X /\ HasFaultEffect(g, vals) /\ g.name \notin Elems(d_frontier)))

\* _update_frontiers
DFrontierOf(vals) ==
    GateNames(SelectSeq(cells, LAMBDA g : vals[g.output] = X /\ HasFaultEffect(g, vals)))

JFrontierOf(vals) ==
    GateNames(SelectSeq(cells, LAMBDA g :
        /\ vals[g.output] \in {ZERO, ONE}
        /\ \E k \in DOMAIN g.inputs : vals[g.inputs[k]] = X))

GateInfo(gate_name) == cells[CHOOSE i \in DOMAIN cells : cells[i].name = gate_name]

\* mutant of _check_d_at_output: any net with the fault effect counts
_check_d_at_output_AnyNet(vals) == \E n \in DOMAIN vals : vals[n] \in {D, D_BAR}

\* mutant of _check_d_at_output: D' is not looked for
_check_d_at_output_OnlyD(vals) == \E n \in PrimaryOutputs : vals[n] = D

_check_d_at_output(vals) == \E n \in PrimaryOutputs : vals[n] \in {D, D_BAR}

\* The breadth-first search of _has_x_path_to_output: queue and visited as in
\* the code; a net is expanded, through the gates it feeds, only when it is X.
RECURSIVE XPathSearch(_, _, _)
XPathSearch(queue, visited, vals) ==
    IF queue = <<>> THEN FALSE
    ELSE LET current_net == Head(queue) IN
         IF current_net \in visited THEN XPathSearch(Tail(queue), visited, vals)
         ELSE IF current_net \in DOMAIN ports /\ ports[current_net].direction = "Output"
         THEN TRUE
         ELSE IF vals[current_net] = X
         THEN LET driven_gates == _get_gates_driven_by_net(current_net)
                  next_nets == SelectSeq([i \in DOMAIN driven_gates |-> driven_gates[i].output],
                                         LAMBDA n : n \notin visited \cup {current_net})
              IN  XPathSearch(Tail(queue) \o next_nets, visited \cup {current_net}, vals)
         ELSE XPathSearch(Tail(queue), visited \cup {current_net}, vals)

\* mutant of _has_x_path_to_output: the search does not go beyond the gate's
\* own output net
_has_x_path_to_output_NoSearch(gate_name, vals) ==
    GateInfo(gate_name).output \in PrimaryOutputs

_has_x_path_to_output(gate_name, vals) ==
    XPathSearch(<<GateInfo(gate_name).output>>, {}, vals)

\* The gate generate_test selects from a non-empty D-frontier, "none" when it
\* returns None: the first gate, or, when that has no X-path, the second one.
SelectGate(frontier, vals) ==
    IF _has_x_path_to_output(frontier[1], vals) THEN frontier[1]
    ELSE IF Len(frontier) > 1 THEN frontier[2]
    ELSE "none"

\* The loops of _propagate_d_through_gate over the gate's inputs from index i on:
\* an X input gets v and the decision is pushed; first_only is the break of the
\* xor/xnor branch.
RECURSIVE AssignUnknown(_, _, _, _, _, _)
AssignUnknown(g, i, v, first_only, vals, stack) ==
    IF i > Len(g.inputs) THEN [values |-> vals, decision_stack |-> stack]
    ELSE LET inp == g.inputs[i] IN
         IF vals[inp] = X
         THEN LET vals2 == [vals EXCEPT ![inp] = v]
                  stack2 == Append(stack, <<"d_propagate", g.name, inp, v>>)
              IN  IF first_only THEN [values |-> vals2, decision_stack |-> stack2]
                  ELSE AssignUnknown(g, i + 1, v, first_only, vals2, stack2)
         ELSE AssignUnknown(g, i + 1, v, first_only, vals, stack)

_propagate_d_through_gate(gate_name, vals, stack) ==
    LET g == GateInfo(gate_name)
        non_controlling == NonControlling(g.type)
    IN  IF non_controlling # "none"
        THEN AssignUnknown(g, 1, non_controlling, FALSE, vals, stack)
        ELSE IF g.type \in {"xor", "xnor"}
        THEN AssignUnknown(g, 1, ZERO, TRUE, vals, stack)
        ELSE [values |-> vals, decision_stack |-> stack]

\* mutant of JustifiedValues: every primary input is set to ZERO
JustifiedValues_AllZero(vals) ==
    [n \in DOMAIN vals |-> IF n \in PrimaryInputs THEN ZERO ELSE vals[n]]

\* mutant of JustifiedValues: the inputs still X are left X
JustifiedValues_Skipped(vals) == vals

\* generate_test, on success: the primary inputs still X are set to ZERO
JustifiedValues(vals) ==
    [n \in DOMAIN vals |-> IF n \in PrimaryInputs /\ vals[n] = X THEN ZERO ELSE vals[n]]

\* generate_test, on success: the character the test vector gets for a value
ExtractBit(val) ==
    CASE val = ZERO -> "0"
      [] val = ONE -> "1"
      [] val = D -> "1"
      [] val = D_BAR -> "0"
      [] OTHER -> "0"

TestVectorOf(vals) == [n \in PrimaryInputs |-> ExtractBit(vals[n])]

(***************************************************************************)
(* Init: an engine constructed on one of the netlists (__init__).          *)
(***************************************************************************)
\* the evaluator has not been called by itself
EvaluatorUnused ==
    /\ ev_fn = "none"
    /\ ev_type = "and"
    /\ ev_in = <<>>
    /\ ev_out = <<>>

\* compute is not called and no batch driver runs
NoSim == [called |-> FALSE]
NoBatch == [running |-> FALSE]
NoDrivers ==
    /\ sim = NoSim
    /\ batch = NoBatch

\* there is one engine and one task
NoSchedule == [phase |-> "single"]
NoEngine == [absent |-> TRUE]
SingleEngine ==
    /\ sched = NoSchedule
    /\ other = NoEngine

\* an engine constructed on the netlist c, before any call
IdleEngineOn(c) ==
    /\ module = c
    /\ ports = c.ports
    /\ cells = c.cells
    /\ nets = c.nets
    /\ fanouts = c.fanouts
    /\ values = <<>>
    /\ d_frontier = <<>>
    /\ j_frontier = <<>>
    /\ decision_stack = <<>>
    /\ pc = "idle"
    /\ fault_net = ""
    /\ fault_type = ""
    /\ iteration = 0
    /\ fi_iteration = 0
    /\ result = NoResult
    /\ prev_call = NoCall
    /\ no_path_seen = FALSE

Init ==
    /\ \E c \in Circuits :
          /\ module = c
          /\ ports = c.ports
          /\ cells = c.cells
          /\ nets = c.nets
          /\ fanouts = c.fanouts
    /\ EvaluatorUnused
    /\ NoDrivers
    /\ SingleEngine
    /\ values = <<>>
    /\ d_frontier = <<>>
    /\ j_frontier = <<>>
    /\ decision_stack = <<>>
    /\ pc = "idle"
    /\ fault_net = ""
    /\ fault_type = ""
    /\ iteration = 0
    /\ fi_iteration = 0
    /\ result = NoResult
    /\ prev_call = NoCall
    /\ no_path_seen = FALSE

(***************************************************************************)
(* generate_test, step by step.                                            *)
(***************************************************************************)
Return(r) ==
    /\ pc' = "done"
    /\ result' = r

\* a generate_test that resets the Signal State before it validates its arguments
Enter_ResetsFirst(fn, ft) ==
    /\ fault_net' = fn
    /\ fault_type' = ft
    /\ iteration' = 0
    /\ fi_iteration' = 0
    /\ no_path_seen' = FALSE
    /\ values' = InitialValues
    /\ d_frontier' = <<>>
    /\ j_frontier' = <<>>
    /\ decision_stack' = <<>>
    /\ IF fn \notin Elems(nets) \/ ft \notin {"SA0", "SA1"}
       THEN Return(ReturnNone)
       ELSE pc' = "initialize" /\ result' = NoResult
    /\ UNCHANGED <<outside, circuit>>

\* Entry and validation of generate_test(fn, ft): an unknown net or fault type
\* returns None before anything is reset.
Enter(fn, ft) ==
    /\ fault_net' = fn
    /\ fault_type' = ft
    /\ iteration' = 0
    /\ fi_iteration' = 0
    /\ no_path_seen' = FALSE
    /\ IF fn \notin Elems(nets) \/ ft \notin {"SA0", "SA1"}
       THEN Return(ReturnNone)
       ELSE pc' = "initialize" /\ result' = NoResult
    /\ UNCHANGED <<outside, circuit, signal>>

\* the first call on a fresh engine
GenerateTest ==
    /\ pc = "idle"
    /\ \E fn \in FaultNets, ft \in FaultTypes : Enter(fn, ft)
    /\ UNCHANGED prev_call

InitializeCircuit ==
    /\ pc = "initialize"
    /\ values' = InitialValues
    /\ d_frontier' = <<>>
    /\ j_frontier' = <<>>
    /\ decision_stack' = <<>>
    /\ pc' = "sensitize"
    /\ UNCHANGED <<outside, circuit, fault_net, fault_type, iteration, fi_iteration, result,
                   prev_call, no_path_seen>>

\* a sensitization that takes the fault net's branches out of the fanout
\* dictionary (self.fanouts.pop(fault_net)) instead of reading them
Sensitize_DropsFanouts ==
    /\ pc = "sensitize"
    /\ values' = SensitizedValues(values, fault_net, fault_type)
    /\ fanouts' = [st \in DOMAIN fanouts \ {fault_net} |-> fanouts[st]]
    /\ iteration' = 0
    /\ pc' = "loop"
    /\ UNCHANGED <<outside, ports, cells, nets, d_frontier, j_frontier, decision_stack,
                   fault_net, fault_type, fi_iteration, result, prev_call, no_path_seen>>

Sensitize ==
    /\ pc = "sensitize"
    /\ values' = SensitizedValues(values, fault_net, fault_type)
    /\ iteration' = 0
    /\ pc' = "loop"
    /\ UNCHANGED <<outside, circuit, d_frontier, j_frontier, decision_stack, fault_net,
                   fault_type, fi_iteration, result, prev_call, no_path_seen>>

\* the head of the main loop: one more iteration, or None at the ceiling
LoopHead ==
    /\ pc = "loop"
    /\ IF MainLoopContinues(iteration)
       THEN /\ iteration' = iteration + 1
            /\ fi_iteration' = 0
            /\ pc' = "forward"
            /\ UNCHANGED result
       ELSE /\ Return(ReturnNone)
            /\ UNCHANGED <<iteration, fi_iteration>>
    /\ UNCHANGED <<outside, circuit, signal, fault_net, fault_type, prev_call, no_path_seen>>

\* one pass of _forward_implication; the call ends on a conflict (generate_test
\* returns None), on a pass that changed nothing, or at the pass ceiling
ForwardPass ==
    /\ pc = "forward"
    /\ ForwardContinues(fi_iteration)
    /\ LET r == ForwardPassResult(values) IN
          /\ values' = r.values
          /\ fi_iteration' = fi_iteration + 1
          /\ IF r.conflict THEN Return(ReturnNone)
             ELSE /\ pc' = IF r.changed /\ ForwardContinues(fi_iteration + 1)
                           THEN "forward" ELSE "frontiers"
                  /\ UNCHANGED result
    /\ UNCHANGED <<outside, circuit, d_frontier, j_frontier, decision_stack, fault_net,
                   fault_type, iteration, prev_call, no_path_seen>>

UpdateFrontiers ==
    /\ pc = "frontiers"
    /\ d_frontier' = DFrontierOf(values)
    /\ j_frontier' = JFrontierOf(values)
    /\ pc' = "check"
    /\ UNCHANGED <<outside, circuit, values, decision_stack, fault_net, fault_type, iteration,
                   fi_iteration, result, prev_call, no_path_seen>>

CheckDAtOutput ==
    /\ pc = "check"
    /\ pc' = IF _check_d_at_output(values) THEN "justify" ELSE "propagate"
    /\ UNCHANGED <<outside, circuit, signal, fault_net, fault_type, iteration, fi_iteration,
                   result, prev_call, no_path_seen>>

\* success: justify the remaining inputs, extract and return the test vector
Justify ==
    /\ pc = "justify"
    /\ values' = JustifiedValues(values)
    /\ Return(ReturnVector(TestVectorOf(JustifiedValues(values))))
    /\ UNCHANGED <<outside, circuit, d_frontier, j_frontier, decision_stack, fault_net,
                   fault_type, iteration, fi_iteration, prev_call, no_path_seen>>

NoGateHasXPath ==
    \A i \in DOMAIN d_frontier : ~_has_x_path_to_output(d_frontier[i], values)

\* the propagation step: None on an empty D-frontier or when no gate is
\* selected, else the selected gate's unknown inputs are driven
Propagate ==
    /\ pc = "propagate"
    /\ no_path_seen' = (no_path_seen \/ NoGateHasXPath)
    /\ IF d_frontier = <<>> \/ SelectGate(d_frontier, values) = "none"
       THEN /\ Return(ReturnNone)
            /\ UNCHANGED <<values, decision_stack>>
       ELSE LET p == _propagate_d_through_gate(SelectGate(d_frontier, values),
                                               values, decision_stack)
            IN  /\ values' = p.values
                /\ decision_stack' = p.decision_stack
                /\ pc' = "loop"
                /\ UNCHANGED result
    /\ UNCHANGED <<outside, circuit, d_frontier, j_frontier, fault_net, fault_type, iteration,
                   fi_iteration, prev_call>>

Next ==
    \/ GenerateTest
    \/ InitializeCircuit
    \/ Sensitize
    \/ LoopHead
    \/ ForwardPass
    \/ UpdateFrontiers
    \/ CheckDAtOutput
    \/ Justify
    \/ Propagate

Spec == Init /\ [][Next]_vars

\* the same engine on the larger family of netlists
InitMore ==
    /\ \E c \in MoreCircuits : IdleEngineOn(c)
    /\ EvaluatorUnused
    /\ NoDrivers
    /\ SingleEngine

SpecMore == InitMore /\ [][Next]_vars

\* the same engine on the deep chain
InitDeep ==
    /\ IdleEngineOn(Chain(ChainDepth))
    /\ EvaluatorUnused
    /\ NoDrivers
    /\ SingleEngine

SpecDeep == InitDeep /\ [][Next]_vars

\* generate_test for a fault on a primary input
GenerateTestOnInput ==
    /\ pc = "idle"
    /\ \E fn \in PrimaryInputs, ft \in {"SA0", "SA1"} : Enter(fn, ft)
    /\ UNCHANGED prev_call

InitPropagation ==
    /\ \E c \in PropagationCircuits : IdleEngineOn(c)
    /\ EvaluatorUnused
    /\ NoDrivers
    /\ SingleEngine

NextPropagation ==
    \/ GenerateTestOnInput
    \/ InitializeCircuit
    \/ Sensitize
    \/ LoopHead
    \/ ForwardPass
    \/ UpdateFrontiers
    \/ CheckDAtOutput
    \/ Justify
    \/ Propagate

SpecPropagation == InitPropagation /\ [][NextPropagation]_vars

\* generate_test runs to its return without being suspended (the engine is
\* single-threaded and synchronous): a step that can be taken is taken
LiveSpec == Spec /\ WF_vars(Next)

(***************************************************************************)
(* Reuse of an engine: a further call on the engine object that has        *)
(* returned (the batch loop of run_d_algorithm_atpg), and the construction *)
(* of a new engine on the same netlist (main(), run_atpg_on_fault_list).   *)
(***************************************************************************)
GenerateTestAgain ==
    /\ pc = "done"
    /\ \E fn \in FaultNets, ft \in FaultTypes : Enter(fn, ft)
    /\ prev_call' = FinishedCall("same")

\* __init__ on the same netlist
Construct ==
    /\ pc = "done"
    /\ values' = <<>>
    /\ d_frontier' = <<>>
    /\ j_frontier' = <<>>
    /\ decision_stack' = <<>>
    /\ pc' = "idle"
    /\ fault_net' = ""
    /\ fault_type' = ""
    /\ iteration' = 0
    /\ fi_iteration' = 0
    /\ result' = NoResult
    /\ no_path_seen' = FALSE
    /\ prev_call' = FinishedCall("other")
    /\ UNCHANGED <<outside, circuit>>

NextReuse ==
    \/ Next
    \/ GenerateTestAgain
    \/ Construct

\* the netlists on which engines are reused
ReuseCircuits ==
    {GateCircuit(t, k) : t \in TwoInputTypes, k \in 2..MaxFanin}
    \cup {Reconvergent(t1, t2) : t1 \in OneInputTypes, t2 \in {"and", "or", "xor"}}
    \cup {Blocked, SampleNetlist}

InitReuse ==
    /\ Init
    /\ Netlist(ports, cells, nets, fanouts) \in ReuseCircuits

SpecReuse == InitReuse /\ [][NextReuse]_vars


(***************************************************************************)
(* Construction from a module dictionary that may lack sections.  Before   *)
(* __init__ has run there is no engine (pc = "unbuilt"); a missing         *)
(* 'ports', 'cells' or 'nets' raises (KeyError in d_algorithm_atpg.py,     *)
(* ValueError in atpg.py and atpg_v2.py) and no engine object comes to     *)
(* exist (pc = "error"); 'fanouts' is read with get(..., {}).              *)
(***************************************************************************)
Sections == {"ports", "cells", "nets", "fanouts"}
\* the module dictionary of netlist c with only the sections in present
ModuleWith(c, present) == [k \in present |-> c[k]]

\* a constructor that reads 'nets' with get(..., []) as it reads 'fanouts'
__init___NetsOptional ==
    /\ pc = "unbuilt"
    /\ IF {"ports", "cells"} \subseteq DOMAIN module
       THEN /\ ports' = module.ports
            /\ cells' = module.cells
            /\ nets' = IF "nets" \in DOMAIN module THEN module.nets ELSE <<>>
            /\ fanouts' = IF "fanouts" \in DOMAIN module THEN module.fanouts
                          ELSE NoFanouts
            /\ pc' = "idle"
       ELSE /\ pc' = "error"
            /\ UNCHANGED circuit
    /\ UNCHANGED <<outside, signal, fault_net, fault_type, iteration, fi_iteration,
                   result, prev_call, no_path_seen>>

__init__ ==
    /\ pc = "unbuilt"
    /\ IF {"ports", "cells", "nets"} \subseteq DOMAIN module
       THEN /\ ports' = module.ports
            /\ cells' = module.cells
            /\ nets' = module.nets
            /\ fanouts' = IF "fanouts" \in DOMAIN module THEN module.fanouts
                          ELSE NoFanouts
            /\ pc' = "idle"
       ELSE /\ pc' = "error"
            /\ UNCHANGED circuit
    /\ UNCHANGED <<outside, signal, fault_net, fault_type, iteration, fi_iteration,
                   result, prev_call, no_path_seen>>

\* the netlists from which sections are left out
ConstructCircuits ==
    {SampleNetlist, Reconvergent("not", "and"), GateCircuit("and", 2)}

InitConstruct ==
    /\ \E c \in ConstructCircuits, present \in SUBSET Sections :
          module = ModuleWith(c, present)
    /\ ports = <<>>
    /\ cells = <<>>
    /\ nets = <<>>
    /\ fanouts = NoFanouts
    /\ EvaluatorUnused
    /\ NoDrivers
    /\ SingleEngine
    /\ values = <<>>
    /\ d_frontier = <<>>
    /\ j_frontier = <<>>
    /\ decision_stack = <<>>
    /\ pc = "unbuilt"
    /\ fault_net = ""
    /\ fault_type = ""
    /\ iteration = 0
    /\ fi_iteration = 0
    /\ result = NoResult
    /\ prev_call = NoCall
    /\ no_path_seen = FALSE

NextConstruct ==
    \/ __init__
    \/ Next

SpecConstruct == InitConstruct /\ [][NextConstruct]_vars

(***************************************************************************)
(* Two tasks on one netlist.  Each task constructs its own engine and      *)
(* calls generate_test for its own fault, as one round of the loop of      *)
(* run_atpg_on_fault_list does; both engines refer to the same module      *)
(* dictionary.  First each task runs alone (sched.alone records what it    *)
(* returns), then two new engines run the same two faults with their steps *)
(* interleaved in any order.  The variables of the engine hold the task    *)
(* that is running; other holds the suspended task's engine fields and the *)
(* locals of its generate_test.  Switch suspends the one and resumes the   *)
(* other.  circuit is never switched: it is the one shared netlist.        *)
(***************************************************************************)
\* a class-level d_frontier = [] that every engine object appends to
EngineFields_ClassLevelFrontier == {"values", "j_frontier", "decision_stack"}

\* the fields __init__ creates on each engine object
EngineFields == {"values", "d_frontier", "j_frontier", "decision_stack"}

\* the running task: its engine's fields and the locals of its generate_test
RunningTask ==
    [values |-> values, d_frontier |-> d_frontier, j_frontier |-> j_frontier,
     decision_stack |-> decision_stack, pc |-> pc, fault_net |-> fault_net,
     fault_type |-> fault_type, iteration |-> iteration,
     fi_iteration |-> fi_iteration, result |-> result,
     no_path_seen |-> no_path_seen]

\* a task whose engine has just been constructed
NewTask ==
    [values |-> <<>>, d_frontier |-> <<>>, j_frontier |-> <<>>,
     decision_stack |-> <<>>, pc |-> "idle", fault_net |-> "",
     fault_type |-> "", iteration |-> 0, fi_iteration |-> 0,
     result |-> NoResult, no_path_seen |-> FALSE]

\* field of the task that is resumed: its own if the field belongs to the
\* engine object, else the one all engines share
Resumed(field, shared_value) ==
    IF field \in EngineFields THEN other[field] ELSE shared_value

Faults == {[net |-> n, type |-> t] : n \in Elems(nets), t \in {"SA0", "SA1"}}

\* the netlists two tasks share
SharedCircuits ==
    {GateCircuit(t, 2) : t \in {"and", "nor", "xor"}}
    \cup {TwoFrontier(t) : t \in {"and", "or"}}
    \cup {Reconvergent("not", "and"), SampleNetlist}

InitShared ==
    /\ \E c \in SharedCircuits :
          /\ module = c
          /\ ports = c.ports
          /\ cells = c.cells
          /\ nets = c.nets
          /\ fanouts = c.fanouts
    /\ \E f1 \in Faults, f2 \in Faults :
          /\ f1 # f2
          /\ sched = [phase |-> "alone", running |-> 1, faults |-> <<f1, f2>>,
                      alone |-> <<NoResult, NoResult>>]
    /\ other = NewTask
    /\ EvaluatorUnused
    /\ NoDrivers
    /\ values = <<>>
    /\ d_frontier = <<>>
    /\ j_frontier = <<>>
    /\ decision_stack = <<>>
    /\ pc = "idle"
    /\ fault_net = ""
    /\ fault_type = ""
    /\ iteration = 0
    /\ fi_iteration = 0
    /\ result = NoResult
    /\ prev_call = NoCall
    /\ no_path_seen = FALSE

\* the running task calls generate_test for its fault
StartTask ==
    /\ pc = "idle"
    /\ sched.phase \in {"alone", "shared"}
    /\ Enter(sched.faults[sched.running].net, sched.faults[sched.running].type)
    /\ UNCHANGED prev_call

\* a task that ran alone has returned: the next task runs alone on a new
\* engine, and after the second one two new engines are constructed
FinishAlone ==
    /\ sched.phase = "alone"
    /\ pc = "done"
    /\ sched' = [sched EXCEPT !.alone[sched.running] = result,
                              !.running = 3 - sched.running,
                              !.phase = IF sched.running = 2 THEN "shared"
                                        ELSE "alone"]
    /\ other' = NewTask
    /\ values' = <<>>
    /\ d_frontier' = <<>>
    /\ j_frontier' = <<>>
    /\ decision_stack' = <<>>
    /\ pc' = "idle"
    /\ fault_net' = ""
    /\ fault_type' = ""
    /\ iteration' = 0
    /\ fi_iteration' = 0
    /\ result' = NoResult
    /\ no_path_seen' = FALSE
    /\ UNCHANGED <<module, evaluator, drivers, circuit, prev_call>>

\* the running task is suspended and the other task, which has not returned
\* yet, goes on
Switch ==
    /\ sched.phase = "shared"
    /\ other.pc # "done"
    /\ sched' = [sched EXCEPT !.running = 3 - sched.running]
    /\ other' = RunningTask
    /\ values' = Resumed("values", values)
    /\ d_frontier' = Resumed("d_frontier", d_frontier)
    /\ j_frontier' = Resumed("j_frontier", j_frontier)
    /\ decision_stack' = Resumed("decision_stack", decision_stack)
    /\ pc' = other.pc
    /\ fault_net' = other.fault_net
    /\ fault_type' = other.fault_type
    /\ iteration' = other.iteration
    /\ fi_iteration' = other.fi_iteration
    /\ result' = other.result
    /\ no_path_seen' = other.no_path_seen
    /\ UNCHANGED <<module, evaluator, drivers, circuit, prev_call>>

NextShared ==
    \/ StartTask
    \/ InitializeCircuit
    \/ Sensitize
    \/ LoopHead
    \/ ForwardPass
    \/ UpdateFrontiers
    \/ CheckDAtOutput
    \/ Justify
    \/ Propagate
    \/ FinishAlone
    \/ Switch

SpecShared == InitShared /\ [][NextShared]_vars

(***************************************************************************)
(* The Logic Evaluator used by itself: _complement applied to a value and  *)
(* then to its result, an evaluator applied to a list of values, to a      *)
(* reordering of the list, and to a chain of three values grouped to the   *)
(* left, to the right and not at all.  ev_out lists the values returned.   *)
(***************************************************************************)
\* largest number of values in a list the evaluators are applied to
MaxInputs == 3

\* the gate kinds _eval_gate knows and one it does not know
GateKinds == {"and", "or", "xor", "nand", "nor", "xnor", "not", "buf", "mux"}

InputLists == UNION {[1..n -> Value] : n \in 0..MaxInputs}

engine == <<circuit, signal, pc, fault_net, fault_type, iteration, fi_iteration,
            result, prev_call, no_path_seen>>

InitEval ==
    /\ ev_fn = "none"
    /\ ev_type \in GateKinds
    /\ ev_in \in InputLists
    /\ ev_out = <<>>
    /\ NoDrivers
    /\ module = SampleNetlist
    /\ ports = module.ports
    /\ cells = module.cells
    /\ nets = module.nets
    /\ fanouts = module.fanouts
    /\ SingleEngine
    /\ values = <<>>
    /\ d_frontier = <<>>
    /\ j_frontier = <<>>
    /\ decision_stack = <<>>
    /\ pc = "idle"
    /\ fault_net = ""
    /\ fault_type = ""
    /\ iteration = 0
    /\ fi_iteration = 0
    /\ result = NoResult
    /\ prev_call = NoCall
    /\ no_path_seen = FALSE

\* _complement(v), then _complement of what it returned
Complement ==
    /\ ev_fn \in {"none", "_complement"}
    /\ Len(ev_in) = 1
    /\ Len(ev_out) < 2
    /\ ev_fn' = "_complement"
    /\ ev_out' = Append(ev_out, _complement(IF ev_out = <<>> THEN ev_in[1]
                                            ELSE ev_out[Len(ev_out)]))
    /\ UNCHANGED <<ev_type, ev_in, module, sched, other, drivers, engine>>

\* _eval_and, _eval_or or _eval_xor applied to the list
EvalGate ==
    /\ ev_fn = "none"
    /\ ev_fn' = "_eval_gate"
    /\ ev_out' = <<_eval_gate(ev_type, ev_in)>>
    /\ UNCHANGED <<ev_type, ev_in, module, sched, other, drivers, engine>>

\* the same evaluator applied to the list in another order (a reordering that
\* changes the list)
EvalPermuted ==
    /\ ev_fn = "_eval_gate"
    /\ ev_type \in {"and", "or", "xor"}
    /\ ev_fn' = "permuted"
    /\ \E perm \in Permutations(DOMAIN ev_in) :
          LET reordered == [i \in DOMAIN ev_in |-> ev_in[perm[i]]] IN
             /\ reordered # ev_in
             /\ ev_out' = Append(ev_out, _eval_gate(ev_type, reordered))
    /\ UNCHANGED <<ev_type, ev_in, module, sched, other, drivers, engine>>

\* op(op(a, b), c), op(a, op(b, c)) and op(a, b, c)
EvalChain ==
    /\ ev_fn = "none"
    /\ ev_type \in {"and", "or", "xor"}
    /\ Len(ev_in) = 3
    /\ ev_fn' = "chain"
    /\ ev_out' = <<_eval_gate(ev_type, <<_eval_gate(ev_type, <<ev_in[1], ev_in[2]>>),
                                         ev_in[3]>>),
                   _eval_gate(ev_type, <<ev_in[1],
                                         _eval_gate(ev_type, <<ev_in[2], ev_in[3]>>)>>),
                   _eval_gate(ev_type, ev_in)>>
    /\ UNCHANGED <<ev_type, ev_in, module, sched, other, drivers, engine>>

NextEval ==
    \/ Complement
    \/ EvalGate
    \/ EvalPermuted
    \/ EvalChain

SpecEval == InitEval /\ [][NextEval]_vars

(***************************************************************************)
(* The 4-state simulator's gate evaluator (logic_evaluator.compute) and    *)
(* the per-bit oracle of its checker (logic_eval_checker.expected_output). *)
(* A word is a sequence of the characters 0, 1, x, z; operand_vectors is   *)
(* the list of operand words.  compute returns the empty word when the     *)
(* number of operands does not fit the gate or the gate is unknown (it     *)
(* prints an error and returns output = '').                               *)
(***************************************************************************)
LOGIC_STATES == {"0", "1", "x", "z"}

\* operands = [x[i] for x in operand_vectors]
Column(operand_vectors, i) ==
    [k \in DOMAIN operand_vectors |-> operand_vectors[k][i]]

\* an and/or family bit that sets no flag for z
FlagBit_IgnoresZ(operands, dominant, if_dominant, if_clean) ==
    LET flag_x == \E k \in DOMAIN operands : operands[k] = "x"
        flag_d == \E k \in DOMAIN operands : operands[k] = dominant
    IN  IF flag_d THEN if_dominant
        ELSE IF ~flag_x THEN if_clean
        ELSE "x"

\* and, or, nand, nor: the flags flag_x, flag_z and flag_0 / flag_1
FlagBit(operands, dominant, if_dominant, if_clean) ==
    LET flag_x == \E k \in DOMAIN operands : operands[k] = "x"
        flag_z == \E k \in DOMAIN operands : operands[k] = "z"
        flag_d == \E k \in DOMAIN operands : operands[k] = dominant
    IN  IF flag_d THEN if_dominant
        ELSE IF ~flag_z /\ ~flag_x THEN if_clean
        ELSE "x"

\* res = int(operands[0]) ^ int(operands[1]) ^ ...
RECURSIVE XorInts(_, _)
XorInts(operands, k) ==
    IF k = 0 THEN 0
    ELSE (XorInts(operands, k - 1) + (IF operands[k] = "1" THEN 1 ELSE 0)) % 2

\* xor (str(res)) and xnor (str(1 - res))
ParityBit(operands, inverted) ==
    LET flag_x == \E k \in DOMAIN operands : operands[k] = "x"
        flag_z == \E k \in DOMAIN operands : operands[k] = "z"
        res == XorInts(operands, Len(operands))
    IN  IF flag_x \/ flag_z THEN "x"
        ELSE IF inverted THEN (IF 1 - res = 1 THEN "1" ELSE "0")
        ELSE (IF res = 1 THEN "1" ELSE "0")

NotBit(op) == IF op = "1" THEN "0" ELSE IF op = "0" THEN "1" ELSE "x"
BufBit(op) == IF op = "1" THEN "1" ELSE IF op = "0" THEN "0" ELSE "x"

\* bufif1, bufif0, notif1, notif0: operands[0] is the data, operands[1] the
\* control; enable is the control value that lets the data through
TristateBit(operands, enable, inverting) ==
    IF operands[2] = enable
    THEN (IF inverting THEN NotBit(operands[1]) ELSE BufBit(operands[1]))
    ELSE IF operands[2] = "x" THEN "x"
    ELSE "z"

compute(operand_vectors, operation) ==
    LET n == Len(operand_vectors[1])
        each(bit(_)) == [i \in 1..n |-> bit(Column(operand_vectors, i))]
        and_bit(c) == FlagBit(c, "0", "0", "1")
        or_bit(c) == FlagBit(c, "1", "1", "0")
        nand_bit(c) == FlagBit(c, "0", "1", "0")
        nor_bit(c) == FlagBit(c, "1", "0", "1")
        xor_bit(c) == ParityBit(c, FALSE)
        xnor_bit(c) == ParityBit(c, TRUE)
        not_bit(c) == NotBit(c[1])
        buf_bit(c) == BufBit(c[1])
        bufif1_bit(c) == TristateBit(c, "1", FALSE)
        bufif0_bit(c) == TristateBit(c, "0", FALSE)
        notif1_bit(c) == TristateBit(c, "1", TRUE)
        notif0_bit(c) == TristateBit(c, "0", TRUE)
        several == Len(operand_vectors) >= 2
        one == Len(operand_vectors) = 1
        two == Len(operand_vectors) = 2
    IN  CASE operation = "and" -> IF several THEN each(and_bit) ELSE <<>>
          [] operation = "not" -> IF one THEN each(not_bit) ELSE <<>>
          [] operation = "buf" -> IF one THEN each(buf_bit) ELSE <<>>
          [] operation = "bufif1" -> IF two THEN each(bufif1_bit) ELSE <<>>
          [] operation = "bufif0" -> IF two THEN each(bufif0_bit) ELSE <<>>
          [] operation = "notif1" -> IF two THEN each(notif1_bit) ELSE <<>>
          [] operation = "notif0" -> IF two THEN each(notif0_bit) ELSE <<>>
          [] operation = "or" -> IF several THEN each(or_bit) ELSE <<>>
          [] operation = "nand" -> IF several THEN each(nand_bit) ELSE <<>>
          [] operation = "nor" -> IF several THEN each(nor_bit) ELSE <<>>
          [] operation = "xor" -> IF several THEN each(xor_bit) ELSE <<>>
          [] operation = "xnor" -> IF several THEN each(xnor_bit) ELSE <<>>
          [] OTHER -> <<>>

\* the oracle of logic_eval_checker.py
_bit_not(b) == IF b = "1" THEN "0" ELSE IF b = "0" THEN "1" ELSE "x"
_bit_buf(b) == IF b \in {"0", "1"} THEN b ELSE "x"
_bit_and(bits) ==
    IF \E k \in DOMAIN bits : bits[k] = "0" THEN "0"
    ELSE IF \A k \in DOMAIN bits : bits[k] = "1" THEN "1"
    ELSE "x"
_bit_or(bits) ==
    IF \E k \in DOMAIN bits : bits[k] = "1" THEN "1"
    ELSE IF \A k \in DOMAIN bits : bits[k] = "0" THEN "0"
    ELSE "x"
_bit_xor(bits) ==
    IF \E k \in DOMAIN bits : bits[k] \in {"x", "z"} THEN "x"
    ELSE IF XorInts(bits, Len(bits)) = 1 THEN "1" ELSE "0"
_bit_xnor(bits) ==
    IF _bit_xor(bits) = "x" THEN "x"
    ELSE IF _bit_xor(bits) = "0" THEN "1" ELSE "0"
_bit_bufif1(d, c) ==
    IF c = "1" THEN _bit_buf(d) ELSE IF c \in {"0", "z"} THEN "z" ELSE "x"
_bit_bufif0(d, c) ==
    IF c = "0" THEN _bit_buf(d) ELSE IF c \in {"1", "z"} THEN "z" ELSE "x"
_bit_notif1(d, c) ==
    IF c = "1" THEN _bit_not(d) ELSE IF c \in {"0", "z"} THEN "z" ELSE "x"
_bit_notif0(d, c) ==
    IF c = "0" THEN _bit_not(d) ELSE IF c \in {"1", "z"} THEN "z" ELSE "x"

\* an unknown operation raises ValueError
expected_output(operands, operation) ==
    LET n == Len(operands[1])
        bit(col) ==
            CASE operation = "not" -> _bit_not(col[1])
              [] operation = "buf" -> _bit_buf(col[1])
              [] operation = "bufif1" -> _bit_bufif1(col[1], col[2])
              [] operation = "bufif0" -> _bit_bufif0(col[1], col[2])
              [] operation = "notif1" -> _bit_notif1(col[1], col[2])
              [] operation = "notif0" -> _bit_notif0(col[1], col[2])
              [] operation = "and" -> _bit_and(col)
              [] operation = "or" -> _bit_or(col)
              [] operation = "nand" -> _bit_not(_bit_and(col))
              [] operation = "nor" -> _bit_not(_bit_or(col))
              [] operation = "xor" -> _bit_xor(col)
              [] operation = "xnor" -> _bit_xnor(col)
              [] OTHER -> "ValueError"
    IN  [i \in 1..n |-> bit(Column(operands, i))]

\* GATES: the gate kinds the checker tests, with the number of operands
GATES ==
    {<<g, 1>> : g \in {"not", "buf"}}
    \cup {<<g, 2>> : g \in {"bufif1", "bufif0", "notif1", "notif0"}}
    \cup {<<g, k>> : g \in {"and", "or", "nand", "nor", "xor", "xnor"}, k \in {2, 3}}

\* longest operand word
MaxWordLen == 2

InitSim ==
    /\ \E gate \in GATES, n \in 1..MaxWordLen :
          \E operands \in [1..gate[2] -> [1..n -> LOGIC_STATES]] :
             sim = [called |-> FALSE, operation |-> gate[1], operands |-> operands,
                    actual |-> <<>>, expected |-> <<>>]
    /\ batch = NoBatch
    /\ EvaluatorUnused
    /\ SingleEngine
    /\ IdleEngineOn(SampleNetlist)

\* one test of the checker: actual = compute(...), expected = expected_output(...)
RunTest ==
    /\ ~sim.called
    /\ sim' = [sim EXCEPT !.called = TRUE,
                          !.actual = compute(sim.operands, sim.operation),
                          !.expected = expected_output(sim.operands, sim.operation)]
    /\ UNCHANGED <<module, evaluator, sched, other, batch, engine>>

NextSim == RunTest

SpecSim == InitSim /\ [][NextSim]_vars

(***************************************************************************)
(* simulate of simulator.py: the word-level simulation of a netlist with   *)
(* an optional stuck-at fault, given as <<net, value>> for 'net:value' and *)
(* <<>> for None.  A word is a sequence of logic states and <<>> is the    *)
(* empty string of a net that has no value yet.  sim holds the arguments   *)
(* and the locals of the call.                                             *)
(***************************************************************************)
Words == UNION {[1..n -> LOGIC_STATES] : n \in 1..MaxWordLen}

Repeated(v, n) == [i \in 1..n |-> v]

SimulatedCircuits ==
    {GateCircuit(g[1], g[2]) : g \in {h \in GATES : h[2] <= 2}}
    \cup {Reconvergent(t1, t2) : t1 \in OneInputTypes, t2 \in TwoInputTypes}
    \cup {InternalStem(t) : t \in {"and", "xor"}}

SimulatedFaults(c) ==
    {<<>>} \cup {<<n, v>> : n \in Elems(c.nets) \cup {"nonet"}, v \in {"0", "1", "x"}}

\* mutant of CopyFanouts: a branch that has a value is overwritten
CopyFanouts_Overwrites(net_values) ==
    [n \in DOMAIN net_values |->
        IF \E stem \in DOMAIN fanouts : n \in Elems(fanouts[stem]) /\ net_values[stem] # <<>>
        THEN net_values[CHOOSE stem \in DOMAIN fanouts : n \in Elems(fanouts[stem])]
        ELSE net_values[n]]

\* the fanout loop of a pass: a branch without a value gets the value of its
\* stem, if the stem has one
CopyFanouts(net_values) ==
    [n \in DOMAIN net_values |->
        IF /\ net_values[n] = <<>>
           /\ \E stem \in DOMAIN fanouts :
                 n \in Elems(fanouts[stem]) /\ net_values[stem] # <<>>
        THEN net_values[CHOOSE stem \in DOMAIN fanouts : n \in Elems(fanouts[stem])]
        ELSE net_values[n]]

\* the cell loop of a pass from cell i on: a gate whose output has no value and
\* whose inputs all have one is computed
RECURSIVE EvaluateCells(_, _)
EvaluateCells(i, net_values) ==
    IF i > Len(cells) THEN net_values
    ELSE LET g == cells[i]
             ready == /\ net_values[g.output] = <<>>
                      /\ \A k \in DOMAIN g.inputs : net_values[g.inputs[k]] # <<>>
             operand_vectors == [k \in DOMAIN g.inputs |-> net_values[g.inputs[k]]]
         IN  EvaluateCells(i + 1,
                 IF ready
                 THEN [n \in DOMAIN net_values |->
                          IF n = g.output THEN compute(operand_vectors, g.type)
                          ELSE net_values[n]]
                 ELSE net_values)

CountUnassigned(net_values) ==
    Cardinality({n \in DOMAIN net_values : net_values[n] = <<>>})

InitSimulate ==
    /\ \E c \in SimulatedCircuits :
          /\ IdleEngineOn(c)
          /\ \E input_words \in [{n \in DOMAIN c.ports : c.ports[n].direction = "Input"} -> Words],
                fault \in SimulatedFaults(c) :
                sim = [phase |-> "called", input_words |-> input_words, fault |-> fault,
                       word_length |-> 0, net_values |-> <<>>, unassigned_nets |-> 0,
                       output_words |->
                           [n \in {m \in DOMAIN c.ports : c.ports[m].direction = "Output"}
                               |-> <<>>],
                       refused |-> FALSE]
    /\ batch = NoBatch
    /\ EvaluatorUnused
    /\ SingleEngine

\* simulate up to its while loop: the checks of the arguments, the input words
\* assigned to the input ports, the fault injected, the nets without a value
\* counted; a call that is refused returns None (refused)
simulate ==
    /\ sim.phase = "called"
    /\ LET word_length == Len(sim.input_words[CHOOSE n \in PrimaryInputs : TRUE])
           assigned == [n \in Elems(nets) \cup PrimaryInputs |->
                           IF n \in PrimaryInputs THEN sim.input_words[n] ELSE <<>>]
           injected == [n \in DOMAIN assigned |->
                           IF sim.fault # <<>> /\ n = sim.fault[1]
                           THEN Repeated(sim.fault[2], word_length)
                           ELSE assigned[n]]
           refused == \/ \E n \in PrimaryInputs : Len(sim.input_words[n]) # word_length
                      \/ word_length = 0
                      \/ /\ sim.fault # <<>>
                         /\ \/ sim.fault[1] \notin Elems(nets)
                            \/ sim.fault[2] \notin {"0", "1"}
       IN  sim' = IF refused
                  THEN [sim EXCEPT !.phase = "returned", !.refused = TRUE]
                  ELSE [sim EXCEPT !.phase = "loop",
                                   !.word_length = word_length,
                                   !.net_values = injected,
                                   !.unassigned_nets = CountUnassigned(injected)]
    /\ UNCHANGED <<module, evaluator, sched, other, batch, engine>>

\* one round of the while loop: the fanout loop, the cell loop, the count
SimulatePass ==
    /\ sim.phase = "loop"
    /\ sim.unassigned_nets # 0
    /\ LET after == EvaluateCells(1, CopyFanouts(sim.net_values)) IN
          sim' = [sim EXCEPT !.net_values = after,
                             !.unassigned_nets = CountUnassigned(after)]
    /\ UNCHANGED <<module, evaluator, sched, other, batch, engine>>

\* the while loop is left and the words of the output ports are returned
SimulateReturn ==
    /\ sim.phase = "loop"
    /\ sim.unassigned_nets = 0
    /\ sim' = [sim EXCEPT !.phase = "returned",
                          !.output_words = [n \in PrimaryOutputs |-> sim.net_values[n]]]
    /\ UNCHANGED <<module, evaluator, sched, other, batch, engine>>

NextSimulate == simulate \/ SimulatePass \/ SimulateReturn

SpecSimulate == InitSimulate /\ [][NextSimulate]_vars

\* simulate is sequential code that nothing suspends: a step that can be taken
\* is taken
LiveSimulate == SpecSimulate /\ WF_vars(NextSimulate)

(***************************************************************************)
(* The batch drivers (the loop of atpg_tester.py, run_atpg_on_fault_list): *)
(* for each fault of the list, in order, a new engine is constructed on    *)
(* the netlist, generate_test is called, and the fault is counted as       *)
(* detected if the value returned is true (if test:) and as undetectable   *)
(* otherwise.  batch.attempted and batch.outcomes record the faults on     *)
(* which generate_test was called and what it returned.                    *)
(***************************************************************************)
\* longest fault list
MaxFaults == 2

\* the faults a list may name: nets of the netlist and a net it does not have,
\* stuck-at-0, stuck-at-1 and a fault type the engine rejects
ListedFaults(c) ==
    {[net |-> n, type |-> t] : n \in Elems(c.nets) \cup {"nonet"}, t \in FaultTypes}

FaultLists(c) == UNION {[1..k -> ListedFaults(c)] : k \in 0..MaxFaults}

BatchCircuits == {ZeroInput("buf"), GateCircuit("and", 2), GateCircuit("xor", 2)}

\* the truth value of what generate_test returned: None and the empty
\* dictionary are false
Truthy(r) == r.status = "vector" /\ DOMAIN r.vector # {}

InitBatch ==
    /\ \E c \in BatchCircuits :
          /\ IdleEngineOn(c)
          /\ \E fl \in FaultLists(c) :
                batch = [running |-> TRUE, faults |-> fl, idx |-> 1,
                         detected |-> 0, undetectable |-> 0,
                         attempted |-> <<>>, outcomes |-> <<>>]
    /\ pc = IF batch.faults = <<>> THEN "finished" ELSE "idle"
    /\ sim = NoSim
    /\ EvaluatorUnused
    /\ SingleEngine

\* atpg.generate_test(node, alg_type) on the engine constructed for the fault
AttemptFault ==
    /\ batch.running
    /\ pc = "idle"
    /\ Enter(batch.faults[batch.idx].net, batch.faults[batch.idx].type)
    /\ UNCHANGED prev_call

\* if test: detected += 1 else: undetectable += 1; then the next round of the
\* loop constructs the engine for the next fault, or the loop ends
CountResult ==
    /\ batch.running
    /\ pc = "done"
    /\ batch' = [batch EXCEPT
                   !.idx = @ + 1,
                   !.detected = IF Truthy(result) THEN @ + 1 ELSE @,
                   !.undetectable = IF Truthy(result) THEN @ ELSE @ + 1,
                   !.attempted = Append(@, [net |-> fault_net, type |-> fault_type]),
                   !.outcomes = Append(@, result)]
    /\ pc' = IF batch.idx = Len(batch.faults) THEN "finished" ELSE "idle"
    /\ values' = <<>>
    /\ d_frontier' = <<>>
    /\ j_frontier' = <<>>
    /\ decision_stack' = <<>>
    /\ fault_net' = ""
    /\ fault_type' = ""
    /\ iteration' = 0
    /\ fi_iteration' = 0
    /\ result' = NoResult
    /\ no_path_seen' = FALSE
    /\ UNCHANGED <<module, evaluator, sched, other, sim, circuit, prev_call>>

NextBatch ==
    \/ AttemptFault
    \/ InitializeCircuit
    \/ Sensitize
    \/ LoopHead
    \/ ForwardPass
    \/ UpdateFrontiers
    \/ CheckDAtOutput
    \/ Justify
    \/ Propagate
    \/ CountResult

SpecBatch == InitBatch /\ [][NextBatch]_vars

(***************************************************************************)
(* Reference semantics for the claims: two-valued simulation of the        *)
(* netlist from a primary-input vector, fault-free (stuck = "") or with    *)
(* the net stuck forced to the bit v.                                      *)
(***************************************************************************)
Bit == {"0", "1"}

BoolNot(b) == IF b = "1" THEN "0" ELSE "1"

BoolGate(gate_type, ins) ==
    IF \E k \in DOMAIN ins : ins[k] \notin Bit THEN X
    ELSE LET all1 == \A k \in DOMAIN ins : ins[k] = "1"
             any1 == \E k \in DOMAIN ins : ins[k] = "1"
             odd == Cardinality({k \in DOMAIN ins : ins[k] = "1"}) % 2 = 1
             bit(c) == IF c THEN "1" ELSE "0"
         IN  CASE gate_type = "and" -> bit(all1)
               [] gate_type = "nand" -> bit(~all1)
               [] gate_type = "or" -> bit(any1)
               [] gate_type = "nor" -> bit(~any1)
               [] gate_type = "xor" -> bit(odd)
               [] gate_type = "xnor" -> bit(~odd)
               [] gate_type = "not" -> BoolNot(ins[1])
               [] gate_type = "buf" -> ins[1]

Drivers(n) == {i \in DOMAIN cells : cells[i].output = n}
Stems(n) == {st \in DOMAIN fanouts : n \in Elems(fanouts[st])}

\* every net is a primary input, a gate output or a fanout branch, and only one
WellFormed ==
    \A n \in Elems(nets) :
        Cardinality(Drivers(n)) + Cardinality(Stems(n))
            + (IF n \in PrimaryInputs THEN 1 ELSE 0) = 1

BoolStep(vals, vec, stuck, v) ==
    [n \in DOMAIN vals |->
        IF n = stuck THEN v
        ELSE IF n \in PrimaryInputs THEN vec[n]
        ELSE IF Drivers(n) # {}
        THEN LET g == cells[CHOOSE i \in Drivers(n) : TRUE]
             IN  BoolGate(g.type, [k \in DOMAIN g.inputs |-> vals[g.inputs[k]]])
        ELSE IF Stems(n) # {} THEN vals[CHOOSE st \in Stems(n) : TRUE]
        ELSE X]

RECURSIVE BoolSettle(_, _, _, _, _)
BoolSettle(vals, vec, stuck, v, k) ==
    IF k = 0 THEN vals ELSE BoolSettle(BoolStep(vals, vec, stuck, v), vec, stuck, v, k - 1)

Simulate(vec, stuck, v) ==
    BoolSettle([n \in Elems(nets) |-> X], vec, stuck, v, Len(nets) + 1)

StuckBit(ft) == IF ft = "SA0" THEN "0" ELSE "1"

\* the vector vec makes the fault (fn, ft) visible at a primary output
Detects(vec, fn, ft) ==
    LET good == Simulate(vec, "", "0")
        bad == Simulate(vec, fn, StuckBit(ft))
    IN  \E o \in PrimaryOutputs : good[o] \in Bit /\ bad[o] \in Bit /\ good[o] # bad[o]

Detectable(fn, ft) == \E vec \in [PrimaryInputs -> Bit] : Detects(vec, fn, ft)

\* the fault-free reading of a five-valued value
FaultFree(val) == IF val = D THEN "1" ELSE IF val = D_BAR THEN "0" ELSE val

ReturnedVector == pc = "done" /\ result.status = "vector"

(***************************************************************************)
(* C1: a returned test vector detects the fault: the two-valued simulation *)
(* of the circuit on the vector, fault-free and with the fault net stuck,  *)
(* differs on a primary output.                                            *)
(***************************************************************************)
C1_VectorDetectsFault ==
    (ReturnedVector /\ WellFormed) => Detects(result.vector, fault_net, fault_type)

(***************************************************************************)
(* C2: on success the fault-free simulation from the returned vector       *)
(* leaves no net unknown and agrees with the fault-free reading of every   *)
(* value the engine has assigned.                                          *)
(***************************************************************************)
C2_VectorConsistent ==
    (ReturnedVector /\ WellFormed) =>
        LET good == Simulate(result.vector, "", "0") IN
        \A n \in Elems(nets) :
            /\ good[n] \in Bit
            /\ values[n] # X => good[n] = FaultFree(values[n])

(***************************************************************************)
(* C3: for a fault that no primary-input assignment detects, generate_test *)
(* returns None.                                                           *)
(***************************************************************************)
C3_UndetectableGivesNone ==
    (pc = "done" /\ WellFormed /\ fault_net \in Elems(nets)
        /\ fault_type \in {"SA0", "SA1"} /\ ~Detectable(fault_net, fault_type))
    => result = ReturnNone

(***************************************************************************)
(* C4: the result of generate_test depends only on the circuit and the     *)
(* fault: a call returns what the call before it returned for the same     *)
(* fault, whether that call was made on the same engine object (after any  *)
(* earlier calls) or on another engine constructed on the same netlist.    *)
(***************************************************************************)
SameFaultAsBefore ==
    /\ pc = "done"
    /\ prev_call.result.status # "unset"
    /\ prev_call.fault_net = fault_net
    /\ prev_call.fault_type = fault_type

C4_ResultDependsOnFaultOnly == SameFaultAsBefore => result = prev_call.result

\* a fault is tested a second time on an engine that is reused, and a vector
\* is returned
C4_Witness ==
    /\ SameFaultAsBefore
    /\ prev_call.engine = "same"
    /\ result.status = "vector"
    /\ decision_stack # <<>>

(***************************************************************************)
(* C5: generate_test terminates: the main loop never runs more than        *)
(* MainMaxIterations iterations, a forward implication never more than     *)
(* FwdMaxIterations passes, a run whose main loop is exhausted returns     *)
(* None, and every call that has started returns.                          *)
(***************************************************************************)
C5_Terminates ==
    /\ [](iteration <= MainMaxIterations /\ fi_iteration <= FwdMaxIterations)
    /\ [][(pc = "loop" /\ iteration >= MainMaxIterations)
            => (pc' = "done" /\ result' = ReturnNone)]_vars
    /\ (pc = "initialize") ~> (pc = "done")

\* a run that the iteration ceiling has ended
C5_Witness ==
    /\ pc = "done"
    /\ iteration = MainMaxIterations
    /\ d_frontier # <<>>
    /\ result = ReturnNone

(***************************************************************************)
(* C6: a run that has met a propagation step at which no primary output    *)
(* holds D or D' and no D-frontier gate has an X-path to a primary output  *)
(* returns None and never a vector.                                        *)
(***************************************************************************)
C6_NoPathGivesNone == (pc = "done" /\ no_path_seen) => result = ReturnNone

\* the run went on after such a step (through the second D-frontier gate) and
\* then returned
C6_Witness ==
    /\ pc = "done"
    /\ no_path_seen
    /\ decision_stack # <<>>
    /\ result = ReturnNone

C8_WitnessNone ==
    /\ pc = "done"
    /\ PrimaryInputs = {}
    /\ fault_net \in Elems(nets)
    /\ fault_type \in {"SA0", "SA1"}
    /\ result = ReturnNone

(***************************************************************************)
(* C9: for the 2-input AND gate g1 (inputs a, b, output f), stuck-at-0 on  *)
(* f returns the vector a = '1', b = '1'.                                  *)
(***************************************************************************)
IsCircuit(c) == Netlist(ports, cells, nets, fanouts) = c

C9_AndGateScenario ==
    (pc = "done" /\ IsCircuit(GateCircuit("and", 2))
        /\ fault_net = "f" /\ fault_type = "SA0")
    => result = ReturnVector([n \in {"a", "b"} |-> "1"])

(***************************************************************************)
(* C10: for the 2-input OR gate (inputs a, b, output f), stuck-at-1 on a   *)
(* returns the vector a = '0', b = '0'.                                    *)
(***************************************************************************)
C10_OrGateScenario ==
    (pc = "done" /\ IsCircuit(GateCircuit("or", 2))
        /\ fault_net = "a" /\ fault_type = "SA1")
    => result = ReturnVector([n \in {"a", "b"} |-> "0"])

C10_Witness ==
    /\ pc = "done"
    /\ IsCircuit(GateCircuit("or", 2))
    /\ fault_net = "a"
    /\ fault_type = "SA1"
    /\ values["f"] = D_BAR
    /\ result.status = "vector"

(***************************************************************************)
(* C11: two generate_test runs for different faults, each on its own       *)
(* engine, on one shared netlist, interleaved step by step in any order,   *)
(* each return what the run returns alone; a step of one run changes       *)
(* neither the other run's engine and locals nor the netlist both read.    *)
(***************************************************************************)
C11_SharedNetlist ==
    /\ [](sched.phase = "shared" =>
             /\ pc = "done" => result = sched.alone[sched.running]
             /\ other.pc = "done" => other.result = sched.alone[3 - sched.running])
    /\ [][(sched.phase = "shared" /\ sched'.phase = "shared"
            /\ sched'.running = sched.running)
              => (other' = other /\ circuit' = circuit)]_vars

\* one task has returned a vector while the other, suspended in the middle of
\* its main loop after a decision, has still to finish
C11_Witness ==
    /\ sched.phase = "shared"
    /\ pc = "done"
    /\ result.status = "vector"
    /\ other.pc \in {"forward", "frontiers", "check", "propagate"}
    /\ other.decision_stack # <<>>

(***************************************************************************)
(* C12: generate_test never modifies the Circuit Model: in every step of   *)
(* every call (successful, failed or rejected as invalid) ports, cells,    *)
(* nets and fanouts are after the step what they were before it, so they   *)
(* are the same before and after the call.                                 *)
(***************************************************************************)
C12_CircuitNeverModified == [][circuit' = circuit]_vars

\* a successful call on a netlist with fanout branches has made decisions and
\* returned, and the circuit is still the one the engine was constructed from
C12_Witness ==
    /\ pc = "done"
    /\ result.status = "vector"
    /\ decision_stack # <<>>
    /\ fault_net \in DOMAIN fanouts
    /\ Netlist(ports, cells, nets, fanouts) = module

(***************************************************************************)
(* C13: a call of generate_test with a fault net that is not in the net    *)
(* set, or with a fault kind other than SA0 / SA1, returns None and leaves *)
(* the Signal State (values), the frontiers and the decision stack as the  *)
(* call found them.                                                        *)
(***************************************************************************)
\* the step is the entry of a call whose arguments are invalid
InvalidCall ==
    /\ pc \in {"idle", "done"}
    /\ pc' \in {"initialize", "done"}
    /\ (fault_net' \notin Elems(nets) \/ fault_type' \notin {"SA0", "SA1"})

C13_InvalidCallKeepsState ==
    [][InvalidCall => (pc' = "done" /\ result' = ReturnNone /\ signal' = signal)]_vars

\* a call with the fault kind SA2 has returned None on an engine that still
\* holds the values and decisions of its previous, successful call
C13_Witness ==
    /\ pc = "done"
    /\ result = ReturnNone
    /\ fault_net \in Elems(nets)
    /\ fault_type = "SA2"
    /\ prev_call.engine = "same"
    /\ prev_call.result.status = "vector"
    /\ decision_stack # <<>>
    /\ \E n \in DOMAIN values : values[n] \in {D, D_BAR}

(***************************************************************************)
(* C14: constructing the engine from a module that lacks 'ports', 'cells'  *)
(* or 'nets' fails with an error and there is no engine object (nothing    *)
(* was built, no call can be made); a module that lacks only 'fanouts' is  *)
(* accepted, with an empty fanout relation.                                *)
(***************************************************************************)
C14_ConstructorSections ==
    pc # "unbuilt" =>
       IF \E k \in {"ports", "cells", "nets"} : k \notin DOMAIN module
       THEN /\ pc = "error"
            /\ circuit = <<<<>>, <<>>, <<>>, NoFanouts>>
            /\ signal = <<<<>>, <<>>, <<>>, <<>>>>
            /\ result = NoResult
       ELSE /\ pc # "error"
            /\ ports = module.ports /\ cells = module.cells /\ nets = module.nets
            /\ "fanouts" \notin DOMAIN module => fanouts = NoFanouts
            /\ "fanouts" \in DOMAIN module => fanouts = module.fanouts

\* the construction from a module without 'nets' (and nothing else missing)
\* has failed
C14_Witness ==
    /\ pc = "error"
    /\ DOMAIN module = {"ports", "cells", "fanouts"}

\* an engine constructed from a module without 'fanouts' has generated a test
C14_WitnessAccepted ==
    /\ pc = "done"
    /\ DOMAIN module = {"ports", "cells", "nets"}
    /\ fanouts = NoFanouts
    /\ result.status = "vector"

(***************************************************************************)
(* C15: _complement is an involution on the five values:                   *)
(* _complement(_complement(v)) = v, with ZERO and ONE swapped, D and D_BAR *)
(* swapped and _complement(X) = X.                                         *)
(***************************************************************************)
Swapped(v) ==
    IF v = ZERO THEN ONE ELSE IF v = ONE THEN ZERO
    ELSE IF v = D THEN D_BAR ELSE IF v = D_BAR THEN D ELSE X

C15_ComplementInvolution ==
    ev_fn = "_complement" =>
       /\ ev_out[1] = Swapped(ev_in[1])
       /\ Len(ev_out) = 2 => ev_out[2] = ev_in[1]

C15_Witness ==
    /\ ev_fn = "_complement"
    /\ ev_in = <<D>>
    /\ ev_out = <<D_BAR, D>>

(***************************************************************************)
(* C16: _eval_and, _eval_or and _eval_xor are commutative: applied to any  *)
(* reordering of a list of values they return what they return for the     *)
(* list.                                                                   *)
(***************************************************************************)
C16_Commutative == ev_fn = "permuted" => ev_out[2] = ev_out[1]

\* XOR of D, ONE and X in some order
C16_Witness ==
    /\ ev_fn = "permuted"
    /\ ev_type = "xor"
    /\ ev_in = <<D, ONE, X>>
    /\ ev_out = <<X, X>>

(***************************************************************************)
(* C17: _eval_and, _eval_or and _eval_xor are associative on chains of the *)
(* same type: op(op(a, b), c) = op(a, op(b, c)) = op(a, b, c).             *)
(***************************************************************************)
C17_Associative ==
    ev_fn = "chain" => (ev_out[1] = ev_out[2] /\ ev_out[2] = ev_out[3])

\* the same for _eval_and and _eval_or only
C17_AssociativeAndOr ==
    (ev_fn = "chain" /\ ev_type \in {"and", "or"}) =>
       (ev_out[1] = ev_out[2] /\ ev_out[2] = ev_out[3])

(***************************************************************************)
(* C18: on a non-empty list _eval_and returns ZERO if any input is ZERO,   *)
(* otherwise D_BAR if any input is D_BAR, otherwise D if any input is D,   *)
(* otherwise ONE if every input is ONE, otherwise X.                       *)
(***************************************************************************)
C18_AndTable ==
    (ev_fn = "_eval_gate" /\ ev_type = "and" /\ ev_in # <<>>) =>
       ev_out[1] = IF ZERO \in Elems(ev_in) THEN ZERO
                   ELSE IF D_BAR \in Elems(ev_in) THEN D_BAR
                   ELSE IF D \in Elems(ev_in) THEN D
                   ELSE IF Elems(ev_in) = {ONE} THEN ONE
                   ELSE X

\* an AND of D with unknown inputs has evaluated to D
C18_Witness ==
    /\ ev_fn = "_eval_gate"
    /\ ev_type = "and"
    /\ ev_in = <<X, D, X>>
    /\ ev_out = <<D>>

(***************************************************************************)
(* C19: OR is the mirror of AND under complement:                          *)
(* _eval_or(inputs) = _complement(_eval_and(the complements of inputs)).   *)
(***************************************************************************)
C19_OrMirrorsAnd ==
    (ev_fn = "_eval_gate" /\ ev_type = "or") =>
       ev_out[1] = _complement(_eval_and([i \in DOMAIN ev_in |->
                                             _complement(ev_in[i])]))

C19_Witness ==
    /\ ev_fn = "_eval_gate"
    /\ ev_type = "or"
    /\ ev_in = <<ZERO, X, D_BAR>>
    /\ ev_out = <<D_BAR>>

(***************************************************************************)
(* C20: _eval_xor returns X if any input is X or if both D and D_BAR       *)
(* occur; otherwise, with p the parity of the ONE inputs, D (p even) or    *)
(* D_BAR (p odd) when D occurs, D_BAR (p even) or D (p odd) when D_BAR     *)
(* occurs, and the parity bit when neither occurs.                         *)
(***************************************************************************)
OnesOdd(l) == Cardinality({i \in DOMAIN l : l[i] = ONE}) % 2 = 1

C20_XorTable ==
    (ev_fn = "_eval_gate" /\ ev_type = "xor") =>
       ev_out[1] = IF X \in Elems(ev_in) \/ {D, D_BAR} \subseteq Elems(ev_in) THEN X
                   ELSE IF D \in Elems(ev_in)
                        THEN (IF OnesOdd(ev_in) THEN D_BAR ELSE D)
                   ELSE IF D_BAR \in Elems(ev_in)
                        THEN (IF OnesOdd(ev_in) THEN D ELSE D_BAR)
                   ELSE IF OnesOdd(ev_in) THEN ONE ELSE ZERO

\* D and D_BAR together
C20_Witness ==
    /\ ev_fn = "_eval_gate"
    /\ ev_type = "xor"
    /\ ev_in = <<D, ONE, D_BAR>>
    /\ ev_out = <<X>>

C21_WitnessUnknownKind ==
    /\ ev_fn = "_eval_gate"
    /\ ev_type = "mux"
    /\ ev_in = <<ONE, ZERO>>
    /\ ev_out = <<X>>

(***************************************************************************)
(* C22: for every gate kind of the 4-state simulator (not, buf, the two-   *)
(* and three-operand and, or, nand, nor, xor, xnor, and bufif0, bufif1,    *)
(* notif0, notif1) and all operand words over 0, 1, x, z of equal length,  *)
(* compute returns what the per-bit oracle expected_output returns, a word *)
(* of the operands' length.                                                *)
(***************************************************************************)
C22_ComputeMatchesOracle ==
    sim.called =>
       /\ sim.actual = sim.expected
       /\ Len(sim.actual) = Len(sim.operands[1])

\* a three-operand nand on words that hold z and x
C22_Witness ==
    /\ sim.called
    /\ sim.operation = "nand"
    /\ sim.operands = <<<<"1", "z">>, <<"1", "0">>, <<"1", "x">>>>
    /\ sim.actual = <<"0", "1">>

(***************************************************************************)
(* C23: a batch driver attempts every fault of the list exactly once, in   *)
(* list order; a fault that fails or is invalid does not stop the batch;   *)
(* detected + undetectable is the number of faults processed; and a fault  *)
(* is counted as detected exactly when generate_test returned a vector.    *)
(***************************************************************************)
VectorsReturned ==
    Cardinality({i \in DOMAIN batch.outcomes : batch.outcomes[i].status = "vector"})

C23_BatchCounts ==
    /\ batch.attempted = SubSeq(batch.faults, 1, batch.idx - 1)
    /\ Len(batch.outcomes) = batch.idx - 1
    /\ batch.detected + batch.undetectable = batch.idx - 1
    /\ pc = "finished" => batch.idx - 1 = Len(batch.faults)
    /\ batch.detected = VectorsReturned

\* the same without the last conjunct: the order, the completion and the sum
C23_BatchOrderAndSum ==
    /\ batch.attempted = SubSeq(batch.faults, 1, batch.idx - 1)
    /\ Len(batch.outcomes) = batch.idx - 1
    /\ batch.detected + batch.undetectable = batch.idx - 1
    /\ pc = "finished" => batch.idx - 1 = Len(batch.faults)

(***************************************************************************)
(* C24: _forward_implication gives the same verdict and the same values    *)
(* for every ordering of the gates in cells.                               *)
(***************************************************************************)
\* the orderings of the gates of the netlist
GateOrders ==
    {[i \in DOMAIN cells |-> cells[p[i]]] : p \in Permutations(DOMAIN cells)}

C24_GateOrderIrrelevant ==
    (pc = "forward" /\ fi_iteration = 0) =>
        \A cs \in GateOrders :
            LET here == _forward_implication(cells, values, 0)
                there == _forward_implication(cs, values, 0)
            IN  /\ there.success = here.success
                /\ here.success => there.values = here.values

(***************************************************************************)
(* C25: in a pass of _forward_implication, a gate whose recomputed output  *)
(* is known and differs from the known value on its output net makes the   *)
(* call fail at once, and generate_test returns None; a gate whose output  *)
(* net is X and whose recomputed value is known gets exactly that value;   *)
(* no other net is written, and nothing but values is written.             *)
(***************************************************************************)
\* a gate whose output, recomputed from vals, is known and differs from the
\* known value on its output net
Conflicts(g, vals) ==
    /\ vals[g.output] # X
    /\ _eval_gate(g.type, InputValues(g, vals)) \notin {X, vals[g.output]}

\* the input values a gate can have seen in the pass: for each input the
\* value before the pass or the value after it
SeenInputs(g, before, after) ==
    {seen \in [DOMAIN g.inputs -> Value] :
        \A k \in DOMAIN g.inputs : seen[k] \in {before[g.inputs[k]], after[g.inputs[k]]}}

C25_ForwardPassWrites ==
    [][pc = "forward" =>
        /\ DOMAIN values' = DOMAIN values
        /\ \A n \in DOMAIN values :
              values'[n] # values[n] =>
                  /\ values[n] = X
                  /\ \E i \in DOMAIN cells :
                        /\ cells[i].output = n
                        /\ \E seen \in SeenInputs(cells[i], values, values') :
                              values'[n] = _eval_gate(cells[i].type, seen)
                  /\ values'[n] # X
        /\ \A i \in DOMAIN cells :
              /\ Conflicts(cells[i], values) => pc' = "done" /\ result' = ReturnNone
              /\ (/\ pc' # "done"
                  /\ values[cells[i].output] = X
                  /\ _eval_gate(cells[i].type, InputValues(cells[i], values)) # X)
                 => values'[cells[i].output] # X
        /\ pc' = "done" =>
              /\ result' = ReturnNone
              /\ \E i \in DOMAIN cells : Conflicts(cells[i], values')
        /\ UNCHANGED <<circuit, d_frontier, j_frontier, decision_stack>>
      ]_vars

\* a pass has written a gate output and a later pass has found a conflict
C25_Witness ==
    /\ pc = "done"
    /\ result = ReturnNone
    /\ fi_iteration > 1
    /\ \E i \in DOMAIN cells : Conflicts(cells[i], values)

\* a pass has tightened an X output and not failed
C25_WitnessTightened ==
    /\ pc = "frontiers"
    /\ \E i \in DOMAIN cells :
          /\ cells[i].output # fault_net
          /\ values[cells[i].output] \notin {X}

(***************************************************************************)
(* C26: whenever _forward_implication returns success the Signal State is  *)
(* a fixed point: re-evaluating any gate from its current inputs gives X   *)
(* or the value already on its output net, for circuits of any depth and   *)
(* any gate order.                                                         *)
(***************************************************************************)
FixedPoint(vals) ==
    \A i \in DOMAIN cells :
        _eval_gate(cells[i].type, InputValues(cells[i], vals)) \in {X, vals[cells[i].output]}

C26_SuccessIsFixedPoint == pc = "frontiers" => FixedPoint(values)

(***************************************************************************)
(* C27: after _forward_implication has reached a fixed point, every gate   *)
(* in the D-frontier is an XOR or XNOR gate: no AND, NAND, OR, NOR, NOT or *)
(* BUF gate has an X output while one of its inputs holds D or D', so the  *)
(* non-controlling-value branch of _propagate_d_through_gate is never      *)
(* taken for a gate selected from the D-frontier.                          *)
(***************************************************************************)
\* the frontiers have been computed from the values forward implication left
FrontiersCurrent == pc \in {"check", "propagate"}

C27_DFrontierIsXor ==
    (FrontiersCurrent /\ FixedPoint(values)) =>
        /\ \A i \in DOMAIN d_frontier : GateInfo(d_frontier[i]).type \in {"xor", "xnor"}
        /\ \A i \in DOMAIN cells :
              (values[cells[i].output] = X /\ HasFaultEffect(cells[i], values))
                  => cells[i].type \in {"xor", "xnor"}
        /\ (pc = "propagate" /\ d_frontier # <<>> /\ SelectGate(d_frontier, values) # "none")
              => NonControlling(GateInfo(SelectGate(d_frontier, values)).type) = "none"

\* a propagation step at a fixed point, with a gate selected from a D-frontier
\* and a gate of another kind, fed by the fault effect, that is settled
C27_Witness ==
    /\ pc = "propagate"
    /\ FixedPoint(values)
    /\ d_frontier # <<>>
    /\ SelectGate(d_frontier, values) # "none"
    /\ \E i \in DOMAIN cells :
          /\ cells[i].type \in {"and", "nand", "or", "nor", "not", "buf"}
          /\ HasFaultEffect(cells[i], values)
          /\ values[cells[i].output] # X

(***************************************************************************)
(* C28: in every state at the end of a sensitize, forward-implication or   *)
(* propagation step of a generate_test run, each fanout stem that holds a  *)
(* value other than X has all of its branch nets holding that same value.  *)
(***************************************************************************)
\* generate_test is between the sensitization and its return
AfterStep == pc \in {"loop", "forward", "frontiers", "check", "propagate", "justify"}

BranchesMirror(vals) ==
    \A stem \in DOMAIN fanouts :
        vals[stem] # X => \A k \in DOMAIN fanouts[stem] : vals[fanouts[stem][k]] = vals[stem]

C28_BranchesMirrorStem == AfterStep => BranchesMirror(values)

\* the same for the stems that no gate drives
C28_InputStemsMirrored ==
    AfterStep =>
        \A stem \in DOMAIN fanouts :
            (values[stem] # X /\ \A i \in DOMAIN cells : cells[i].output # stem)
                => \A k \in DOMAIN fanouts[stem] : values[fanouts[stem][k]] = values[stem]

(***************************************************************************)
(* C29: at a propagation step with a non-empty D-frontier, generate_test   *)
(* propagates through the first D-frontier gate, in netlist order, that    *)
(* has a path of X nets to a primary output, and returns None if no        *)
(* D-frontier gate has such a path; it never propagates through a gate     *)
(* that has no such path.                                                  *)
(***************************************************************************)
\* the positions in the D-frontier of the gates that have an X-path
WithXPath == {i \in DOMAIN d_frontier : _has_x_path_to_output(d_frontier[i], values)}

FirstWithXPath == d_frontier[CHOOSE i \in WithXPath : \A j \in WithXPath : i <= j]

C29_FirstGateWithXPath ==
    [][(pc = "propagate" /\ d_frontier # <<>>) =>
          IF WithXPath = {}
          THEN pc' = "done" /\ result' = ReturnNone /\ UNCHANGED <<values, decision_stack>>
          ELSE LET p == _propagate_d_through_gate(FirstWithXPath, values, decision_stack)
               IN  /\ values' = p.values
                   /\ decision_stack' = p.decision_stack
                   /\ pc' = "loop"
      ]_vars

\* the same for the D-frontiers the code handles as claimed: a first gate with
\* an X-path, or a single gate
C29_FirstGateOrSingle ==
    [][(/\ pc = "propagate"
        /\ d_frontier # <<>>
        /\ (1 \in WithXPath \/ Len(d_frontier) = 1)) =>
          IF WithXPath = {}
          THEN pc' = "done" /\ result' = ReturnNone /\ UNCHANGED <<values, decision_stack>>
          ELSE LET p == _propagate_d_through_gate(FirstWithXPath, values, decision_stack)
               IN  /\ values' = p.values
                   /\ decision_stack' = p.decision_stack
                   /\ pc' = "loop"
      ]_vars

(***************************************************************************)
(* C30: _has_x_path_to_output(gate) is true exactly when a primary output  *)
(* is reachable from the gate's output net by a search that follows both   *)
(* the fanout stem-to-branch edges and the gate-input-to-gate-output edges *)
(* and passes only through X nets; in particular a gate whose output is a  *)
(* fanout stem whose branch feeds a gate driving a primary output through  *)
(* X nets has an X-path.                                                   *)
(***************************************************************************)
\* the nets one edge after net n: its fanout branches and the outputs of the
\* gates it feeds
EdgesFrom(n) ==
    (IF n \in DOMAIN fanouts THEN Elems(fanouts[n]) ELSE {})
    \cup {cells[i].output : i \in {j \in DOMAIN cells : n \in Elems(cells[j].inputs)}}

\* the nets reached from the nets in reached by going on from X nets only
RECURSIVE XReachable(_, _)
XReachable(reached, vals) ==
    LET more == UNION {EdgesFrom(n) : n \in {m \in reached : vals[m] = X}} IN
    IF more \subseteq reached THEN reached ELSE XReachable(reached \cup more, vals)

XPathReference(gate_name, vals) ==
    XReachable({GateInfo(gate_name).output}, vals) \cap PrimaryOutputs # {}

C30_XPathFollowsFanouts ==
    pc = "propagate" =>
        \A i \in DOMAIN d_frontier :
            _has_x_path_to_output(d_frontier[i], values) = XPathReference(d_frontier[i], values)

\* one direction holds: a path the code finds is a path of the reference
C30_XPathFoundIsReal ==
    pc = "propagate" =>
        \A i \in DOMAIN d_frontier :
            _has_x_path_to_output(d_frontier[i], values) => XPathReference(d_frontier[i], values)

(***************************************************************************)
(* C31: _propagate_d_through_gate on the chosen gate sets every X input to *)
(* ONE for AND/NAND and to ZERO for OR/NOR, sets exactly one X input (the  *)
(* first in input order) to ZERO for XOR/XNOR, and changes neither an      *)
(* input that already has a value nor any net that is not an input of the  *)
(* gate.                                                                   *)
(***************************************************************************)
\* the gate a propagation step works on
ChosenGate == GateInfo(SelectGate(d_frontier, values))

\* the positions of the X inputs of gate g
UnknownInputs(g) == {k \in DOMAIN g.inputs : values[g.inputs[k]] = X}

\* the nets a propagation through the chosen gate is to write, and the value
DrivenInputs ==
    LET g == ChosenGate IN
    CASE g.type \in {"and", "nand", "or", "nor"} -> {g.inputs[k] : k \in UnknownInputs(g)}
      [] g.type \in {"xor", "xnor"} ->
            {g.inputs[k] : k \in {j \in UnknownInputs(g) : \A i \in UnknownInputs(g) : j <= i}}
      [] OTHER -> {}

DrivenValue == IF ChosenGate.type \in {"and", "nand"} THEN ONE ELSE ZERO

C31_WitnessXor ==
    /\ pc = "loop"
    /\ Len(decision_stack) = 1
    /\ LET g == GateInfo(decision_stack[1][2]) IN
          /\ g.type = "xor"
          /\ \E k \in DOMAIN g.inputs : values[g.inputs[k]] = X
          /\ values[decision_stack[1][3]] = ZERO

(***************************************************************************)
(* C32: during a generate_test run, after the sensitize step, no net that  *)
(* holds a value other than X is changed to another value or reset to X:   *)
(* every write goes from X to a known value; the fault net keeps its D or  *)
(* D' until the call returns; and the decision stack is only appended to.  *)
(***************************************************************************)
IsPrefix(s, t) == Len(s) <= Len(t) /\ SubSeq(t, 1, Len(s)) = s

C32_WritesOnlyTighten ==
    [][AfterStep =>
          /\ DOMAIN values' = DOMAIN values
          /\ \A n \in DOMAIN values :
                /\ values[n] # X => values'[n] = values[n]
                /\ values'[n] # values[n] => values'[n] # X
          /\ values[fault_net] = (IF fault_type = "SA0" THEN D ELSE D_BAR)
          /\ values'[fault_net] = values[fault_net]
          /\ IsPrefix(decision_stack, decision_stack')
      ]_vars

\* a run that has written nets by implication, propagation and justification
\* and has returned
C32_Witness ==
    /\ pc = "done"
    /\ result.status = "vector"
    /\ decision_stack # <<>>
    /\ values[fault_net] \in {D, D_BAR}
    /\ \E n \in PrimaryInputs : n # fault_net /\ values[n] = ZERO
    /\ \E i \in DOMAIN cells : values[cells[i].output] \notin {X, ZERO, ONE}

(***************************************************************************)
(* C33: each loop iteration of generate_test runs forward implication,     *)
(* then the frontier update, then the primary-output check, then           *)
(* propagation; a vector is returned only from an iteration whose check    *)
(* found D or D' on a primary output; success and failure are terminal;    *)
(* and once the check succeeds no propagation or implication step is run.  *)
(***************************************************************************)
FaultEffectAtOutput ==
    \E n \in DOMAIN ports :
        ports[n].direction = "Output" /\ values[n] \in {D, D_BAR}

C33_IterationOrder ==
    [][/\ pc # "done"
       /\ pc = "loop" => (pc' = "forward" /\ iteration' = iteration + 1) \/ pc' = "done"
       /\ pc = "forward" => pc' \in {"forward", "frontiers", "done"}
       /\ pc = "frontiers" => pc' = "check"
       /\ pc = "check" => pc' = IF FaultEffectAtOutput THEN "justify" ELSE "propagate"
       /\ pc = "propagate" => (pc' = "loop" /\ iteration' = iteration) \/ pc' = "done"
       /\ pc = "justify" =>
             /\ FaultEffectAtOutput
             /\ pc' = "done"
             /\ result'.status = "vector"
       /\ result'.status = "vector" => pc = "justify"
       /\ pc' = "done" /\ pc # "justify" => result' = ReturnNone
      ]_vars

\* a vector returned from the second iteration, after a propagation step
C33_Witness ==
    /\ pc = "done"
    /\ result.status = "vector"
    /\ iteration = 2
    /\ decision_stack # <<>>
    /\ FaultEffectAtOutput

(***************************************************************************)
(* C34: after the sensitize step of generate_test(fault_net, kind) the     *)
(* fault net holds D for stuck-at-0 and D' for stuck-at-1, every fanout    *)
(* branch of the fault net holds the same value, and every other net is X. *)
(***************************************************************************)
JustSensitized == pc = "loop" /\ iteration = 0

BranchesOfFault == IF fault_net \in DOMAIN fanouts THEN Elems(fanouts[fault_net]) ELSE {}

CellIndex(gate_name) == CHOOSE i \in DOMAIN cells : cells[i].name = gate_name

\* the list fr holds the names of the cells in the set of positions wanted,
\* each once, in the order of cells
ListsInOrder(fr, wanted) ==
    /\ Elems(fr) = {cells[i].name : i \in wanted}
    /\ \A i, j \in DOMAIN fr : i < j => CellIndex(fr[i]) < CellIndex(fr[j])

C35_FrontiersExact ==
    pc = "propagate" =>
        /\ ListsInOrder(d_frontier,
              {i \in DOMAIN cells :
                  /\ values[cells[i].output] = X
                  /\ \E k \in DOMAIN cells[i].inputs :
                        values[cells[i].inputs[k]] \in {D, D_BAR}})
        /\ ListsInOrder(j_frontier,
              {i \in DOMAIN cells :
                  /\ values[cells[i].output] \in {ZERO, ONE}
                  /\ \E k \in DOMAIN cells[i].inputs : values[cells[i].inputs[k]] = X})
        /\ Elems(d_frontier) \cap Elems(j_frontier) = {}

\* a propagation step of a later iteration with a gate in each frontier
C35_Witness ==
    /\ pc = "propagate"
    /\ iteration > 1
    /\ d_frontier # <<>>
    /\ j_frontier # <<>>

(***************************************************************************)
(* C36: every main-loop iteration of generate_test that reaches the        *)
(* propagation step and does not return assigns at least one net that was  *)
(* X, so the number of X nets strictly decreases from one iteration to the *)
(* next and the iteration ceiling is never what ends a run.                *)
(***************************************************************************)
\* the forward implication of the running iteration has written a net: its
\* first pass changed something, so it made a second pass
ImplicationAssigned == fi_iteration > 1

C36_IterationsMakeProgress ==
    [][/\ (pc = "propagate" /\ pc' = "loop") =>
             \/ ImplicationAssigned
             \/ \E n \in DOMAIN values : values[n] = X /\ values'[n] # X
       /\ pc = "loop" => pc' = "forward"
      ]_vars

(***************************************************************************)
(* C37: simulate terminates with every net holding a word of the input     *)
(* word length, for every acyclic netlist in which each net is a primary   *)
(* input, a gate output or a fanout branch and every gate has a supported  *)
(* type and a valid input count; with an injected fault 'net:v' the faulty *)
(* net holds v repeated over the whole word in the final state and is      *)
(* never overwritten by gate evaluation or fanout copying.                 *)
(***************************************************************************)
SimulationAccepted == sim.phase \in {"loop", "returned"} /\ ~sim.refused

AllNetsHoldWords ==
    \A n \in Elems(nets) :
        /\ Len(sim.net_values[n]) = sim.word_length
        /\ \A i \in 1..sim.word_length : sim.net_values[n][i] \in LOGIC_STATES

FaultyNetHeld ==
    sim.fault # <<>> =>
        \A i \in 1..sim.word_length : sim.net_values[sim.fault[1]][i] = sim.fault[2]

C37_SimulateTerminates ==
    /\ <>(sim.phase = "returned")
    /\ []((sim.phase = "returned" /\ SimulationAccepted) =>
              /\ sim.word_length > 0
              /\ \A n \in PrimaryInputs : Len(sim.input_words[n]) = sim.word_length
              /\ AllNetsHoldWords)
    /\ [](SimulationAccepted =>
              /\ FaultyNetHeld
              /\ sim.fault # <<>> => Len(sim.net_values[sim.fault[1]]) = sim.word_length)

\* a simulation has returned with a fault on a fanout branch whose stem holds
\* another word, computed by a gate
C37_Witness ==
    /\ sim.phase = "returned"
    /\ SimulationAccepted
    /\ sim.fault # <<>>
    /\ sim.word_length = MaxWordLen
    /\ \E stem \in DOMAIN fanouts :
          /\ sim.fault[1] \in Elems(fanouts[stem])
          /\ sim.net_values[stem] # sim.net_values[sim.fault[1]]
          /\ \E i \in DOMAIN cells : cells[i].output = stem

=============================================================================
